---- MODULE Spec2Model ----
(***************************************************************************)
(* universal-data-source: the concurrent data plane.                       *)
(*                                                                         *)
(*   SpecData  one_wire poller -> broadcast channel -> {data merger,       *)
(*             cache updater -> CachedData <- passive API readers}         *)
(*   SpecNut   NetworkUpsToolsClient: connect / reconnect with backoff,    *)
(*             the guarded connection, query_all_upses                     *)
(***************************************************************************)
EXTENDS Integers, Sequences, FiniteSets, TLC

\* ------------------------------------------------------------------------
\* Option<T>, HashMap<String, T>
\* ------------------------------------------------------------------------
None == <<>>

Some(v) == <<v>>

IsSome(o) == Len(o) = 1

Unwrap(o) == o[1]

EmptyMap == [k \in {} |-> k]

\* HashMap::insert: a later insert of the same key replaces the value
MapInsert(m, k, v) == [x \in (DOMAIN m) \cup {k} |-> IF x = k THEN v ELSE m[x]]

\* HashMap::get(..).cloned()
MapGet(m, k) == IF k \in DOMAIN m THEN Some(m[k]) ELSE None

SeqToSet(s) == {s[i] : i \in 1..Len(s)}

RECURSIVE SelectSome(_)
\* Iterator::filter(|sensor| sensor.temperature.is_some()).collect()
SelectSome(s) ==
    IF s = <<>> THEN <<>>
    ELSE IF IsSome(Head(s).temperature)
         THEN <<Head(s)>> \o SelectSome(Tail(s))
         ELSE SelectSome(Tail(s))

\* ------------------------------------------------------------------------
\* Bounds
\* ------------------------------------------------------------------------
\* capacity of a family's broadcast channel (the bounded backlog)
ChanCap == 1

\* number of directory entries one scan sees at most
MaxEntries == 2

\* ------------------------------------------------------------------------
\* one_wire: DS18B20 devices below base_path
\* ------------------------------------------------------------------------
HexDigits == {"0", "1", "2", "3", "4", "5", "6", "7", "8", "9", "a", "b", "c", "d", "e", "f"}

\* ONE_WIRE_DEVICE_ID_REGEX = ^[0-9a-f]{2}-[0-9a-f]{12}$ on a name given as
\* its sequence of characters
MatchesOneWireId(name) ==
    /\ Len(name) = 15
    /\ name[3] = "-"
    /\ \A i \in (1..15) \ {3} : name[i] \in HexDigits

DevA == "28-00000a0b0c0d"

DevB == "28-00000a0b0c0e"

\* one character short
DevShort == "28-0123456789a"

\* the characters of a directory name
Chars(name) ==
    CASE name = DevA -> <<"2", "8", "-", "0", "0", "0", "0", "0", "a", "0", "b", "0", "c", "0", "d">>
      [] name = DevB -> <<"2", "8", "-", "0", "0", "0", "0", "0", "a", "0", "b", "0", "c", "0", "e">>
      [] name = DevShort -> <<"2", "8", "-", "0", "1", "2", "3", "4", "5", "6", "7", "8", "9", "a">>

\* str::trim().parse::<f64>() of a temperature file, as millidegrees
ParseMilli(contents) ==
    CASE contents = "1234" -> Some(1234)
      [] contents = "21500\n" -> Some(21500)
      [] contents = " 1234" -> Some(1234)
      [] OTHER -> None

\* str::trim().parse::<u8>() of a resolution file
ParseU8(contents) ==
    CASE contents = "12" -> Some(12)
      [] contents = "9\n" -> Some(9)
      [] OTHER -> None

\* A directory entry as one poll cycle meets it: what the scan sees
\* (is_dir, the two files present) and what the later reads find (a file
\* may be gone by then: None).
Entry(name, is_dir, has_t, has_r, t, r) ==
    [name |-> name, is_dir |-> is_dir, has_temperature |-> has_t,
     has_resolution |-> has_r, temperature_file |-> t, resolution_file |-> r]

Entries ==
    { Entry(DevA, TRUE, TRUE, TRUE, Some("1234"), Some("12")),
      Entry(DevA, TRUE, TRUE, TRUE, Some("garbage"), Some("12")),
      Entry(DevB, TRUE, TRUE, TRUE, Some("21500\n"), Some("x")),
      Entry(DevB, TRUE, TRUE, TRUE, None, Some("12")),
      Entry(DevB, TRUE, TRUE, FALSE, Some("1234"), None),
      Entry(DevB, FALSE, FALSE, FALSE, None, None),
      Entry(DevShort, TRUE, TRUE, TRUE, Some("1234"), Some("12")) }

\* the listings read_dir can yield: entries with distinct names, any order
Directories ==
    { d \in UNION { [1..n -> Entries] : n \in 0..MaxEntries } :
        \A i, j \in 1..Len(d) : i # j => d[i].name # d[j].name }

\* Ds18b20TemperatureSensor::is_valid
\* an is_valid that does not ask for the resolution file
is_valid_NoResolution(e) ==
    /\ e.is_dir
    /\ MatchesOneWireId(Chars(e.name))
    /\ e.has_temperature

is_valid(e) ==
    /\ e.is_dir
    /\ MatchesOneWireId(Chars(e.name))
    /\ e.has_temperature
    /\ e.has_resolution

RECURSIVE get_all_ds18b20_sensors(_)
\* the entries that are directories and valid sensors, in listing order
get_all_ds18b20_sensors(d) ==
    IF d = <<>> THEN <<>>
    ELSE IF Head(d).is_dir /\ is_valid(Head(d))
         THEN <<Head(d)>> \o get_all_ds18b20_sensors(Tail(d))
         ELSE get_all_ds18b20_sensors(Tail(d))

\* Ds18b20TemperatureSensor::get_temperature: millidegrees / 1000.0,
\* kept as the fraction num / den
get_temperature(e) ==
    IF ~IsSome(e.temperature_file) THEN None
    ELSE IF IsSome(ParseMilli(Unwrap(e.temperature_file)))
         THEN Some([num |-> Unwrap(ParseMilli(Unwrap(e.temperature_file))), den |-> 1000])
         ELSE None

\* Ds18b20TemperatureSensor::get_resolution
get_resolution(e) ==
    IF ~IsSome(e.resolution_file) THEN None
    ELSE ParseU8(Unwrap(e.resolution_file))

\* HardwareMetadata::new
HardwareMetadata(id, hardware_type, source_type) ==
    [hw |-> [id |-> id, hardware_type |-> hardware_type],
     source |-> [source_type |-> source_type]]

\* the .map(|sensor| MeasuredTemperature { .. }) of the updater loop
MeasuredTemperature(e) ==
    [meta |-> HardwareMetadata(e.name, "TemperatureSensor", "OneWire"),
     temperature |-> get_temperature(e),
     resolution |-> get_resolution(e)]

MapReadings(sensors) == [i \in 1..Len(sensors) |-> MeasuredTemperature(sensors[i])]

\* a poller that publishes every reading, measured or not
FilterReadings_KeepAll(readings) == readings

\* the .filter(..) step of the updater loop
FilterReadings(readings) == SelectSome(readings)

\* ------------------------------------------------------------------------
\* State
\* ------------------------------------------------------------------------
VARIABLES
    enabled,        \* config: module -> is_enabled()
    ow_pc,          \* start_one_wire_updater_loop: "start" | "scan" | "sleep" | "returned"
    ow_dropped,     \* history: this poll cycle filtered a reading out
    receivers,      \* family -> the consumers holding a live broadcast::Receiver
    chan,           \* family -> consumer -> values sent and not yet received
    lagged,         \* family -> consumer -> the receiver lost values to overflow
    merger_pc,      \* start_active_sender_loop / data merger task
    merger_off,     \* families whose recv branch is disabled in the pending select!
    data_to_send,   \* the merger's DataToSend
    watch,          \* value held by the data_to_send watch channel
    cache,          \* CachedData: the four guarded fields
    wlock,          \* fields of CachedData whose RwLock is write-locked
    upd_pc,         \* start_cache_updater_loop / set_sensors, set_upses position
    upd_off,        \* families whose recv branch is disabled in the pending select!
    upd_family,     \* family of the value being applied
    upd_value,      \* the Vec passed to set_sensors / set_upses
    upd_i,          \* items of upd_value already inserted
    committed,      \* history: family -> argument of the last completed set
    rd,             \* the read being answered: the request and its response
    upses,          \* NetworkUpsToolsClient.upses
    connection,     \* NetworkUpsToolsClient.connection: the guarded Option<Connection>
    conn_lock,      \* owner of the connection Mutex, 0 when free
    failed_attempts, \* NetworkUpsToolsClient.failed_attempts
    fa_wlock,       \* the failed_attempts RwLock is write-locked
    pc,             \* caller -> position in the client loop / query_all_upses
    loc,            \* caller -> locals of the call in progress
    sleep_left,     \* caller -> time left of the sleep in progress
    stable,         \* environment: the server is reachable and sessions stay alive
    since_fail,     \* history: time since the last failed connect (saturating)
    since_connect,  \* history: time since the last connect returned, up to the cooldown
    consec_fail,    \* history: failed connects since the last successful one
    dead,           \* history: sessions whose liveness check failed
    calls,          \* history: caller -> the get_var calls of the batch in progress
    shutdown,       \* the shutdown notifier has sent its message and dropped the sender
    servers,        \* config: the servers of start_nut_monitoring_loop still to be spawned
    endpoints,      \* config: get_endpoints()
    cooldown_cfg,   \* config: ActiveSenderConfig::get_cooldown(), in seconds
    fn_ret,         \* the start functions that have returned
    rocket_pc,      \* the rocket task: "off" | "running" | "returned"
    watch_open,     \* the watch Sender of data_to_send is alive
    ep_pc,          \* endpoint -> client loop: "off" | "select" | "sending" | "returned"
    ep_changed,     \* endpoint -> its watch Receiver has not seen the current value
    last_sent,      \* endpoint -> None, or the time elapsed since Some(Instant)
    recorded,       \* the endpoints whose send outcomes are remembered
    ignore_errors,  \* config.get_ignore_connection_errors()
    debug_build,    \* the program was built with debug_assertions
    ep_result,      \* endpoint -> how its last send ended and whether it was logged
    since_ok,       \* endpoint -> None, or the time elapsed since a send succeeded
    ep_busy,        \* endpoint -> time the request in flight has taken
    ep_body,        \* endpoint -> the json of the request in flight
    observed,       \* history: the endpoints whose notifications are recorded
    since_notif,    \* history: time since the watch channel's last send (saturating)
    notif_gap,      \* history: time between the watch channel's last two sends
    notif_pending,  \* history: endpoint -> notifications not yet handled (saturating)
    prev_sent,      \* history: endpoint -> the notification handled last was sent
    fs,             \* environment: the device entries below base_path right now
    scan,           \* the temperature poll cycle in progress: its locals
    nut_clients,    \* blocking main: server id -> NetworkUpsToolsClient
    held,           \* blocking main: the client and connection taken out by the closure
    ups_i,          \* blocking main: the UPS the filter_map is at
    skipped,        \* history: calls answered from the cooldown since the last failure
    last_call       \* history: what the last take_connection call did

dataVars == <<enabled, ow_pc, ow_dropped, receivers, chan, lagged, merger_pc, merger_off,
              data_to_send, watch, cache, wlock, upd_pc, upd_off, upd_family, upd_value,
              upd_i, committed, rd>>

nutVars == <<upses, connection, conn_lock, failed_attempts, fa_wlock, pc, loc,
             sleep_left, stable, since_fail, since_connect, consec_fail, dead, calls>>

lifeVars == <<shutdown, servers, endpoints, cooldown_cfg, fn_ret, rocket_pc, watch_open,
              recorded, ignore_errors, debug_build, ep_result,
              ep_pc, ep_changed, last_sent, since_ok, ep_busy, ep_body,
              observed, since_notif, notif_gap, notif_pending, prev_sent, fs, scan,
              nut_clients, held, ups_i, skipped, last_call>>

\* the file system and the locals of the fine-grained temperature poll cycle
scanVars == <<fs, scan>>

\* the state of the blocking main loop and its clients
blockingVars == <<nut_clients, held, ups_i, skipped, last_call>>

\* what no step of the consumers, the server loops and the endpoints changes
cfgVars == <<servers, endpoints, cooldown_cfg, observed, recorded, ignore_errors, debug_build,
             scanVars, blockingVars>>

epVars == <<ep_pc, ep_changed, last_sent, since_ok, ep_busy, ep_body, ep_result>>

notifVars == <<since_notif, notif_gap, notif_pending, prev_sent>>

vars == <<dataVars, nutVars, lifeVars>>

\* the endpoints a configuration may name
Endpoints == {1, 2}

\* Duration::from_secs(5), the timeout of one request, in seconds
SendTimeout == 5

\* Duration::from_secs(1), the least cooldown of an endpoint loop
MinCooldown == 1

\* the cooldowns a configuration may ask for, in seconds
CooldownConfigs == {0, 2}

Max(a, b) == IF a >= b THEN a ELSE b

\* let cooldown = max(config.get_cooldown(), Duration::from_secs(1));
EndpointCooldown == Max(cooldown_cfg, MinCooldown)

\* the elapsed times the model tells apart: up to just beyond every cooldown
MaxElapsed ==
    1 + CHOOSE c \in CooldownConfigs \cup {MinCooldown} :
            \A d \in CooldownConfigs \cup {MinCooldown} : d <= c

\* a start function returns
Returns(m) == fn_ret' = fn_ret \cup {m}

Families == {"temperature", "ups"}

Consumers == {"merger", "cache"}

Modules == {"one_wire", "ups_monitoring", "active_sender", "passive_endpoint"}

\* the Vec field and the HashMap field of CachedData for a family
VecField(f) == IF f = "temperature" THEN "temperature_sensors" ELSE "upses"

MapField(f) == IF f = "temperature" THEN "temperature_sensors_by_hw_id" ELSE "upses_by_hw_id"

\* no response is being handed over
NoRead == [op |-> "none", family |-> "temperature", id |-> "", result |-> <<>>,
           before |-> <<>>, after |-> <<>>]

\* a response is handed to the client before any other task moves: it is a
\* private clone, so the order of that hand-over and the other tasks' steps
\* is immaterial
NoResponsePending == rd = NoRead

\* CachedData::default()
CachedDataDefault ==
    [temperature_sensors |-> <<>>, upses |-> <<>>,
     temperature_sensors_by_hw_id |-> EmptyMap, upses_by_hw_id |-> EmptyMap]

\* DataToSend::new(vec![], vec![])
DataToSendEmpty == [sensors |-> <<>>, upses |-> <<>>]

\* ------------------------------------------------------------------------
\* broadcast channel
\* ------------------------------------------------------------------------
\* Sender::receiver_count
receiver_count(f) == Cardinality(receivers[f])

\* a send that delivers the value twice
Send_Twice(f, value) ==
    /\ chan' = [chan EXCEPT ![f] = [c \in Consumers |->
                  IF c \notin receivers[f] THEN chan[f][c]
                  ELSE IF Len(chan[f][c]) + 2 <= ChanCap
                       THEN Append(Append(chan[f][c], value), value)
                  ELSE IF ChanCap = 1 THEN <<value>>
                  ELSE Append(Append(Tail(chan[f][c]), value), value)]]
    /\ lagged' = [lagged EXCEPT ![f] = [c \in Consumers |->
                  IF c \in receivers[f] /\ Len(chan[f][c]) + 2 > ChanCap
                  THEN TRUE ELSE lagged[f][c]]]

\* Sender::send: every live receiver gets the value; a receiver whose backlog
\* is full loses its oldest value and is marked lagged
Send(f, value) ==
    /\ chan' = [chan EXCEPT ![f] = [c \in Consumers |->
                  IF c \notin receivers[f] THEN chan[f][c]
                  ELSE IF Len(chan[f][c]) < ChanCap THEN Append(chan[f][c], value)
                  ELSE Append(Tail(chan[f][c]), value)]]
    /\ lagged' = [lagged EXCEPT ![f] = [c \in Consumers |->
                  IF c \in receivers[f] /\ Len(chan[f][c]) >= ChanCap
                  THEN TRUE ELSE lagged[f][c]]]

\* Receiver::recv yields Ok(value): not lagged and a value is waiting
CanRecv(f, c) == c \in receivers[f] /\ ~lagged[f][c] /\ chan[f][c] # <<>>

\* dropping a Receiver (its owner returned)
DropReceivers(c) ==
    /\ receivers' = [f \in Families |-> receivers[f] \ {c}]
    /\ chan' = [f \in Families |-> [chan[f] EXCEPT ![c] = <<>>]]
    /\ lagged' = [f \in Families |-> [lagged[f] EXCEPT ![c] = FALSE]]

\* ------------------------------------------------------------------------
\* one_wire::sender
\* ------------------------------------------------------------------------
\* if !config.is_enabled() { return; }
OneWireStart ==
    /\ ow_pc = "start"
    /\ IF enabled["one_wire"]
       THEN ow_pc' = "scan" /\ UNCHANGED fn_ret
       ELSE ow_pc' = "returned" /\ Returns("one_wire")
    /\ UNCHANGED <<enabled, ow_dropped, receivers, chan, lagged, merger_pc, merger_off,
                   data_to_send, watch, cache, wlock, upd_pc, upd_off, upd_family,
                   upd_value, upd_i, committed>>
    /\ NoResponsePending
    /\ UNCHANGED rd
    /\ UNCHANGED nutVars
    /\ UNCHANGED <<shutdown, cfgVars, rocket_pc, watch_open, epVars, notifVars>>

\* the body of one iteration up to the send, for one directory listing:
\* the collection to publish, and whether a reading was filtered out
PollResult(d) ==
    LET readings == MapReadings(get_all_ds18b20_sensors(d))
        sensors == FilterReadings(readings)
    IN [sensors |-> sensors,
        dropped |-> Len(sensors) < Len(readings)]

PollResults == {PollResult(d) : d \in Directories}

\* one iteration of the loop: scan, map, filter, send if anybody listens
OneWireCycle ==
    /\ ow_pc = "scan"
    /\ \E r \in PollResults :
         /\ ow_dropped' = r.dropped
         /\ IF receiver_count("temperature") > 0
            THEN Send("temperature", r.sensors)
            ELSE UNCHANGED <<chan, lagged>>
    /\ ow_pc' = "sleep"
    /\ UNCHANGED <<enabled, receivers, merger_pc, merger_off, data_to_send, watch, cache,
                   wlock, upd_pc, upd_off, upd_family, upd_value, upd_i, committed>>
    /\ NoResponsePending
    /\ UNCHANGED rd
    /\ UNCHANGED nutVars
    /\ UNCHANGED lifeVars

\* sleep(cooldown) elapsed
OneWireWake ==
    /\ ow_pc = "sleep"
    /\ ow_pc' = "scan"
    /\ ow_dropped' = FALSE
    /\ UNCHANGED <<enabled, receivers, chan, lagged, merger_pc, merger_off,
                   data_to_send, watch, cache, wlock, upd_pc, upd_off, upd_family,
                   upd_value, upd_i, committed>>
    /\ NoResponsePending
    /\ UNCHANGED rd
    /\ UNCHANGED nutVars
    /\ UNCHANGED lifeVars

\* ------------------------------------------------------------------------
\* one_wire::sender, statement by statement, on a file system that changes
\* ------------------------------------------------------------------------
\* the contents of a file that is not valid UTF-8: read_to_string fails on it
InvalidUtf8 == "invalid utf-8"

\* a device entry below base_path: a directory (or not) and its two files,
\* None for a file that does not exist
FsDevice(name, is_dir, t, r) ==
    [name |-> name, is_dir |-> is_dir, temperature_file |-> t, resolution_file |-> r]

FsEntries ==
    {FsDevice(DevA, TRUE, t, r) :
        t \in {Some("1234"), Some(InvalidUtf8), None},
        r \in {Some("12"), None}}
    \cup {FsDevice(DevB, TRUE, Some("21500\n"), Some("x")),
          FsDevice(DevB, FALSE, None, None),
          FsDevice(DevShort, TRUE, Some("1234"), Some("12"))}

\* the contents base_path can have: entries with distinct names
FsStates == {d \in SUBSET FsEntries : \A x, y \in d : x.name = y.name => x = y}

\* the entry as a scan meets it at this moment
AsEntry(dev) ==
    Entry(dev.name, dev.is_dir,
          dev.is_dir /\ IsSome(dev.temperature_file),
          dev.is_dir /\ IsSome(dev.resolution_file),
          dev.temperature_file, dev.resolution_file)

\* the listings read_dir can yield for the contents: every entry once, in any order
Listings(contents) ==
    {[i \in 1..Cardinality(contents) |-> AsEntry(d[i])] :
        d \in {x \in [1..Cardinality(contents) -> contents] :
                  \A i, j \in 1..Cardinality(contents) : i # j => x[i] # x[j]}}

\* the entry of the given name right now, None if it is gone
Lookup(name) ==
    IF \E dev \in fs : dev.name = name
    THEN Some(CHOOSE dev \in fs : dev.name = name)
    ELSE None

\* path.join(file).is_file()
IsFile(name, file) ==
    /\ IsSome(Lookup(name))
    /\ Unwrap(Lookup(name)).is_dir
    /\ IsSome(Unwrap(Lookup(name))[file])

\* read_to_string(path): Ok(contents) unless the file is gone or not UTF-8
ReadToString(name, file) ==
    IF IsFile(name, file) /\ Unwrap(Unwrap(Lookup(name))[file]) # InvalidUtf8
    THEN Some(Unwrap(Unwrap(Lookup(name))[file]))
    ELSE None

\* no poll cycle in progress
NoScan == [list |-> <<>>, i |-> 0, temperature |-> None, out |-> <<>>]

\* the file system changes: one device, or a file of it, is attached, removed
\* or rewritten
FsChange ==
    /\ ow_pc \notin {"start", "returned", "panicked"}
    /\ \E contents \in FsStates \ {fs} :
         /\ \E name \in {DevA, DevB, DevShort} :
              {dev \in contents : dev.name # name} = {dev \in fs : dev.name # name}
         /\ fs' = contents
    /\ UNCHANGED scan
    /\ UNCHANGED dataVars
    /\ UNCHANGED nutVars
    /\ UNCHANGED <<shutdown, servers, endpoints, cooldown_cfg, observed, recorded,
                   ignore_errors, debug_build, fn_ret, rocket_pc, watch_open, epVars, notifVars,
                   blockingVars>>

\* let sensors = get_all_ds18b20_sensors(&base_path).await
OneWireScan ==
    /\ ow_pc = "scan"
    /\ \E d \in Listings(fs) :
         scan' = [list |-> get_all_ds18b20_sensors(d), i |-> 1, temperature |-> None,
                  out |-> <<>>]
    /\ ow_pc' = "t_check"
    /\ UNCHANGED fs
    /\ UNCHANGED <<enabled, ow_dropped, receivers, chan, lagged, merger_pc, merger_off,
                   data_to_send, watch, cache, wlock, upd_pc, upd_off, upd_family,
                   upd_value, upd_i, committed>>
    /\ NoResponsePending
    /\ UNCHANGED rd
    /\ UNCHANGED nutVars
    /\ UNCHANGED <<shutdown, servers, endpoints, cooldown_cfg, observed, recorded,
                   ignore_errors, debug_build, fn_ret, rocket_pc, watch_open, epVars, notifVars,
                   blockingVars>>

\* a get_temperature that answers None when the read fails
TemperatureRead_Lenient ==
    /\ ow_pc = "t_read"
    /\ LET name == scan.list[scan.i].name
           contents == ReadToString(name, "temperature_file")
       IN scan' = [scan EXCEPT !.temperature =
                     IF IsSome(contents)
                     THEN get_temperature([temperature_file |-> contents])
                     ELSE None]
    /\ ow_pc' = "r_check"
    /\ UNCHANGED fs
    /\ UNCHANGED <<enabled, ow_dropped, receivers, chan, lagged, merger_pc, merger_off,
                   data_to_send, watch, cache, wlock, upd_pc, upd_off, upd_family,
                   upd_value, upd_i, committed>>
    /\ NoResponsePending
    /\ UNCHANGED rd
    /\ UNCHANGED nutVars
    /\ UNCHANGED <<shutdown, servers, endpoints, cooldown_cfg, observed, recorded,
                   ignore_errors, debug_build, fn_ret, rocket_pc, watch_open, epVars, notifVars,
                   blockingVars>>

\* get_temperature: if !path.is_file() { return None; }, or the map is over
TemperatureCheck ==
    /\ ow_pc = "t_check"
    /\ IF scan.i > Len(scan.list)
       THEN ow_pc' = "filter" /\ UNCHANGED scan
       ELSE IF IsFile(scan.list[scan.i].name, "temperature_file")
       THEN ow_pc' = "t_read" /\ UNCHANGED scan
       ELSE ow_pc' = "r_check" /\ scan' = [scan EXCEPT !.temperature = None]
    /\ UNCHANGED fs
    /\ UNCHANGED <<enabled, ow_dropped, receivers, chan, lagged, merger_pc, merger_off,
                   data_to_send, watch, cache, wlock, upd_pc, upd_off, upd_family,
                   upd_value, upd_i, committed>>
    /\ NoResponsePending
    /\ UNCHANGED rd
    /\ UNCHANGED nutVars
    /\ UNCHANGED <<shutdown, servers, endpoints, cooldown_cfg, observed, recorded,
                   ignore_errors, debug_build, fn_ret, rocket_pc, watch_open, epVars, notifVars,
                   blockingVars>>

\* get_temperature: read_to_string(path).unwrap(), then trim, parse, / 1000.0
TemperatureRead ==
    /\ ow_pc = "t_read"
    /\ LET name == scan.list[scan.i].name
           contents == ReadToString(name, "temperature_file")
       IN IF IsSome(contents)
          THEN /\ scan' = [scan EXCEPT !.temperature =
                             get_temperature([temperature_file |-> contents])]
               /\ ow_pc' = "r_check"
          ELSE /\ ow_pc' = "panicked"
               /\ UNCHANGED scan
    /\ UNCHANGED fs
    /\ UNCHANGED <<enabled, ow_dropped, receivers, chan, lagged, merger_pc, merger_off,
                   data_to_send, watch, cache, wlock, upd_pc, upd_off, upd_family,
                   upd_value, upd_i, committed>>
    /\ NoResponsePending
    /\ UNCHANGED rd
    /\ UNCHANGED nutVars
    /\ UNCHANGED <<shutdown, servers, endpoints, cooldown_cfg, observed, recorded,
                   ignore_errors, debug_build, fn_ret, rocket_pc, watch_open, epVars, notifVars,
                   blockingVars>>

\* the reading of the device at hand, pushed by the map
PushReading(resolution) ==
    scan' = [scan EXCEPT
               !.out = Append(@, [meta |-> HardwareMetadata(scan.list[scan.i].name,
                                                            "TemperatureSensor", "OneWire"),
                                  temperature |-> scan.temperature,
                                  resolution |-> resolution]),
               !.i = @ + 1,
               !.temperature = None]

\* get_resolution: if !path.is_file() { return None; }
ResolutionCheck ==
    /\ ow_pc = "r_check"
    /\ IF IsFile(scan.list[scan.i].name, "resolution_file")
       THEN ow_pc' = "r_read" /\ UNCHANGED scan
       ELSE ow_pc' = "t_check" /\ PushReading(None)
    /\ UNCHANGED fs
    /\ UNCHANGED <<enabled, ow_dropped, receivers, chan, lagged, merger_pc, merger_off,
                   data_to_send, watch, cache, wlock, upd_pc, upd_off, upd_family,
                   upd_value, upd_i, committed>>
    /\ NoResponsePending
    /\ UNCHANGED rd
    /\ UNCHANGED nutVars
    /\ UNCHANGED <<shutdown, servers, endpoints, cooldown_cfg, observed, recorded,
                   ignore_errors, debug_build, fn_ret, rocket_pc, watch_open, epVars, notifVars,
                   blockingVars>>

\* get_resolution: read_to_string(path).unwrap(), then trim, parse
ResolutionRead ==
    /\ ow_pc = "r_read"
    /\ LET name == scan.list[scan.i].name
           contents == ReadToString(name, "resolution_file")
       IN IF IsSome(contents)
          THEN /\ PushReading(get_resolution([resolution_file |-> contents]))
               /\ ow_pc' = "t_check"
          ELSE /\ ow_pc' = "panicked"
               /\ UNCHANGED scan
    /\ UNCHANGED fs
    /\ UNCHANGED <<enabled, ow_dropped, receivers, chan, lagged, merger_pc, merger_off,
                   data_to_send, watch, cache, wlock, upd_pc, upd_off, upd_family,
                   upd_value, upd_i, committed>>
    /\ NoResponsePending
    /\ UNCHANGED rd
    /\ UNCHANGED nutVars
    /\ UNCHANGED <<shutdown, servers, endpoints, cooldown_cfg, observed, recorded,
                   ignore_errors, debug_build, fn_ret, rocket_pc, watch_open, epVars, notifVars,
                   blockingVars>>

\* the filter, then the send if anybody listens, then the sleep begins
OneWireFilterSend ==
    /\ ow_pc = "filter"
    /\ LET sensors == FilterReadings(scan.out)
       IN /\ ow_dropped' = (Len(sensors) < Len(scan.out))
          /\ scan' = NoScan
          /\ IF receiver_count("temperature") > 0
             THEN Send("temperature", sensors)
             ELSE UNCHANGED <<chan, lagged>>
    /\ ow_pc' = "sleep"
    /\ UNCHANGED fs
    /\ UNCHANGED <<enabled, receivers, merger_pc, merger_off, data_to_send, watch, cache,
                   wlock, upd_pc, upd_off, upd_family, upd_value, upd_i, committed>>
    /\ NoResponsePending
    /\ UNCHANGED rd
    /\ UNCHANGED nutVars
    /\ UNCHANGED <<shutdown, servers, endpoints, cooldown_cfg, observed, recorded,
                   ignore_errors, debug_build, fn_ret, rocket_pc, watch_open, epVars, notifVars,
                   blockingVars>>

\* ------------------------------------------------------------------------
\* nut (blocking client) and the UPS part of the blocking main loop
\* ------------------------------------------------------------------------
\* failed_attempts and cooldown_counter are u8
MaxU8 == 255

\* u8::saturating_add(1) that wraps instead
saturating_add_u8_Wrapping(x) == (x + 1) % (MaxU8 + 1)

\* u8::saturating_add(1)
saturating_add_u8(x) == IF x = MaxU8 THEN MaxU8 ELSE x + 1

\* u8::saturating_sub(1)
saturating_sub_u8(x) == IF x = 0 THEN 0 ELSE x - 1

\* NetworkUpsToolsClient::new: no connection yet, both counters 0
NewBlockingClient == [connection |-> FALSE, failed_attempts |-> 0, cooldown_counter |-> 0]

\* take_connection on client c, Connection::new succeeding or not if it is
\* called: the client afterwards, whether a connection is returned, and what
\* the call did
take_connection(c, connects) ==
    IF ~c.connection
    THEN IF c.cooldown_counter > 0
         THEN [client |-> [c EXCEPT !.cooldown_counter = saturating_sub_u8(@)],
               conn |-> FALSE, did |-> "skipped"]
         ELSE IF connects
         THEN [client |-> [c EXCEPT !.failed_attempts = 0, !.connection = FALSE],
               conn |-> TRUE, did |-> "connected"]
         ELSE [client |-> [c EXCEPT !.failed_attempts = saturating_add_u8(@),
                                    !.cooldown_counter =
                                        saturating_add_u8(c.failed_attempts)],
               conn |-> FALSE, did |-> "failed"]
    ELSE [client |-> [c EXCEPT !.connection = FALSE], conn |-> TRUE, did |-> "reused"]

\* give_connection
give_connection(c) == [c EXCEPT !.connection = TRUE]

\* the server ids of the configured UPSes, in configuration order: two UPSes
\* on server 1, then two on each of the servers 2 and 3, interleaved
BlockingUpses == <<1, 1, 2, 3, 2, 3>>

\* the servers a client is configured for
BlockingServers == {1, 2, 3}

\* nut_clients as built at startup for the given servers, the loop at the
\* first UPS
BlockingInit(srv, first) ==
    /\ nut_clients = [s \in srv |-> NewBlockingClient]
    /\ held = None
    /\ ups_i = first
    /\ skipped = 0
    /\ last_call = "none"

\* the history of the take_connection calls
RecordCall(did) ==
    /\ last_call' = did
    /\ skipped' = CASE did = "skipped" -> skipped + 1
                    [] did = "failed" -> 0
                    [] did = "connected" -> 0
                    [] OTHER -> skipped

\* a caller that keeps the client calls take_connection on it
ClientTake ==
    /\ held = None
    /\ 1 \in DOMAIN nut_clients
    /\ \E connects \in BOOLEAN :
         LET r == take_connection(nut_clients[1], connects)
         IN /\ nut_clients' = [nut_clients EXCEPT ![1] = r.client]
            /\ held' = IF r.conn THEN Some([id |-> 1, client |-> r.client]) ELSE None
            /\ RecordCall(r.did)
    /\ UNCHANGED ups_i
    /\ UNCHANGED <<dataVars, nutVars, scanVars>>
    /\ UNCHANGED <<shutdown, servers, endpoints, cooldown_cfg, observed, recorded,
                   ignore_errors, debug_build, fn_ret, rocket_pc, watch_open, epVars, notifVars>>

\* the closure of the filter_map up to take_connection: the client leaves
\* nut_clients, and a None from remove or from take_connection returns None
MainTake ==
    /\ held = None
    /\ ups_i <= Len(BlockingUpses)
    /\ LET id == BlockingUpses[ups_i]
       IN IF id \notin DOMAIN nut_clients
          THEN /\ ups_i' = ups_i + 1
               /\ UNCHANGED <<nut_clients, held, skipped, last_call>>
          ELSE \E connects \in BOOLEAN :
                 LET r == take_connection(nut_clients[id], connects)
                 IN /\ nut_clients' = [s \in DOMAIN nut_clients \ {id} |-> nut_clients[s]]
                    /\ held' = IF r.conn THEN Some([id |-> id, client |-> r.client])
                               ELSE None
                    /\ ups_i' = IF r.conn THEN ups_i ELSE ups_i + 1
                    /\ RecordCall(r.did)
    /\ UNCHANGED <<dataVars, nutVars, scanVars>>
    /\ UNCHANGED <<shutdown, servers, endpoints, cooldown_cfg, observed, recorded,
                   ignore_errors, debug_build, fn_ret, rocket_pc, watch_open, epVars, notifVars>>

\* list_variables, give_connection, nut_clients.insert
MainGive ==
    /\ held # None
    /\ LET h == Unwrap(held)
       IN nut_clients' = [s \in DOMAIN nut_clients \cup {h.id} |->
                            IF s = h.id THEN give_connection(h.client) ELSE nut_clients[s]]
    /\ held' = None
    /\ ups_i' = IF ups_i <= Len(BlockingUpses) THEN ups_i + 1 ELSE ups_i
    /\ UNCHANGED <<skipped, last_call>>
    /\ UNCHANGED <<dataVars, nutVars, scanVars>>
    /\ UNCHANGED <<shutdown, servers, endpoints, cooldown_cfg, observed, recorded,
                   ignore_errors, debug_build, fn_ret, rocket_pc, watch_open, epVars, notifVars>>

\* the iteration ends: the data is sent, the loop sleeps and starts over
MainIterationEnd ==
    /\ held = None
    /\ ups_i = Len(BlockingUpses) + 1
    /\ ups_i' = 1
    /\ UNCHANGED <<nut_clients, held, skipped, last_call>>
    /\ UNCHANGED <<dataVars, nutVars, scanVars>>
    /\ UNCHANGED <<shutdown, servers, endpoints, cooldown_cfg, observed, recorded,
                   ignore_errors, debug_build, fn_ret, rocket_pc, watch_open, epVars, notifVars>>

\* ------------------------------------------------------------------------
\* active_sender::receiver: the data merger task
\* ------------------------------------------------------------------------
\* if !config.is_enabled() { return; }, else the merger task is spawned
\* with the watch channel and a client loop spawned for each endpoint
MergerStart ==
    /\ merger_pc = "start"
    /\ IF enabled["active_sender"]
       THEN /\ merger_pc' = "select"
            /\ watch_open' = TRUE
            /\ ep_pc' = [e \in Endpoints |-> IF e \in endpoints THEN "select" ELSE "off"]
            /\ UNCHANGED <<receivers, chan, lagged, fn_ret>>
       ELSE /\ merger_pc' = "returned"
            /\ DropReceivers("merger")
            /\ Returns("active_sender")
            /\ UNCHANGED <<watch_open, ep_pc>>
    /\ UNCHANGED <<enabled, ow_pc, ow_dropped, merger_off, data_to_send, watch, cache,
                   wlock, upd_pc, upd_off, upd_family, upd_value, upd_i, committed>>
    /\ NoResponsePending
    /\ UNCHANGED rd
    /\ UNCHANGED nutVars
    /\ UNCHANGED <<shutdown, cfgVars, rocket_pc, ep_changed, last_sent, since_ok, ep_result,
                   ep_busy, ep_body,
                   notifVars>>

\* a merger that writes a family's value to the other family's field
SnapshotField_Swapped(f) == IF f = "temperature" THEN "upses" ELSE "sensors"

\* the field of DataToSend a family's value is written to
SnapshotField(f) == IF f = "temperature" THEN "sensors" ELSE "upses"

\* the endpoints whose client loop holds a watch Receiver
Listening == {e \in Endpoints : ep_pc[e] \in {"select", "sending"}}

\* a send that notifies only if the new value differs from the old one
Notify_Deduplicated ==
    IF watch' = watch
    THEN UNCHANGED <<ep_changed, notif_gap, since_notif, notif_pending>>
    ELSE /\ ep_changed' = [e \in Endpoints |-> ep_changed[e] \/ e \in Listening]
         /\ notif_gap' = IF observed # {} THEN since_notif ELSE notif_gap
         /\ since_notif' = IF observed # {} THEN 0 ELSE since_notif
         /\ notif_pending' = [e \in Endpoints |->
                                IF e \in Listening \cap observed /\ notif_pending[e] < 2
                                THEN notif_pending[e] + 1
                                ELSE notif_pending[e]]

\* watch::Sender::send: the value is replaced and every Receiver sees a change
Notify ==
    /\ ep_changed' = [e \in Endpoints |-> ep_changed[e] \/ e \in Listening]
    /\ notif_gap' = IF observed # {} THEN since_notif ELSE notif_gap
    /\ since_notif' = IF observed # {} THEN 0 ELSE since_notif
    /\ notif_pending' = [e \in Endpoints |->
                           IF e \in Listening \cap observed /\ notif_pending[e] < 2
                           THEN notif_pending[e] + 1
                           ELSE notif_pending[e]]

\* what fn_ret holds when start_active_sender_loop has ended in a panic
ActiveSenderPanicked == "active_sender: panicked"

\* start_active_sender_loop still holds data_to_send_rx, the Receiver the
\* channel was created with: a local that lives until the function ends
LoopReceiverAlive ==
    "active_sender" \notin fn_ret /\ ActiveSenderPanicked \notin fn_ret

\* the live Receivers of the watch channel
WatchReceivers == (IF LoopReceiverAlive THEN 1 ELSE 0) + Cardinality(Listening)

\* Ok(value) = <family>_rx.recv() => overwrite the field, republish the whole;
\* send(..).unwrap() panics if the channel has no Receiver, and the task ends
\* dropping its Receivers and the watch Sender
MergerRecv(f) ==
    /\ merger_pc = "select"
    /\ f \notin merger_off
    /\ CanRecv(f, "merger")
    /\ data_to_send' = [data_to_send EXCEPT ![SnapshotField(f)] = Head(chan[f]["merger"])]
    /\ merger_off' = {}
    /\ IF WatchReceivers > 0
       THEN /\ chan' = [chan EXCEPT ![f]["merger"] = Tail(@)]
            /\ watch' = data_to_send'
            /\ Notify
            /\ UNCHANGED <<receivers, lagged, merger_pc, watch_open>>
       ELSE /\ merger_pc' = "panicked"
            /\ DropReceivers("merger")
            /\ watch_open' = FALSE
            /\ UNCHANGED <<watch, ep_changed, notif_gap, since_notif, notif_pending>>
    /\ UNCHANGED <<enabled, ow_pc, ow_dropped, cache, wlock,
                   upd_pc, upd_off, upd_family, upd_value, upd_i, committed>>
    /\ NoResponsePending
    /\ UNCHANGED rd
    /\ UNCHANGED nutVars
    /\ UNCHANGED <<shutdown, cfgVars, fn_ret, rocket_pc, ep_pc, last_sent,
                   since_ok, ep_result, ep_busy, ep_body, prev_sent>>

\* recv() yields Err(Lagged): the pattern Ok(value) does not match, so the
\* branch is disabled for the rest of this select!; the receiver has caught
\* up to the oldest retained value
MergerLagged(f) ==
    /\ merger_pc = "select"
    /\ f \notin merger_off
    /\ "merger" \in receivers[f]
    /\ lagged[f]["merger"]
    /\ lagged' = [lagged EXCEPT ![f]["merger"] = FALSE]
    /\ merger_off' = merger_off \cup {f}
    /\ UNCHANGED <<enabled, ow_pc, ow_dropped, receivers, chan, merger_pc, data_to_send,
                   watch, cache, wlock, upd_pc, upd_off, upd_family, upd_value, upd_i,
                   committed>>
    /\ NoResponsePending
    /\ UNCHANGED rd
    /\ UNCHANGED nutVars
    /\ UNCHANGED lifeVars

\* ------------------------------------------------------------------------
\* active_sender::receiver: start_active_sender_client_loop, one per endpoint
\* ------------------------------------------------------------------------
\* a loop that never skips
InCooldown_Never(e) == FALSE

\* last_sent.is_some() && last_sent.unwrap().elapsed() <= cooldown
InCooldown(e) == IsSome(last_sent[e]) /\ Unwrap(last_sent[e]) <= EndpointCooldown

\* a Receiver for which the value the channel was created with is unseen
ChangedReady_InitialUnseen(e) ==
    ep_pc[e] = "select" /\ (ep_changed[e] \/ last_sent[e] = None)

\* changed() resolves in the select! of the loop: an unseen value is there
ChangedReady(e) == ep_pc[e] = "select" /\ ep_changed[e]

\* a loop that posts the value the channel was created with
BorrowClone_Initial(e) == DataToSendEmpty

\* the json the loop hands to send_data: data_to_send_rx.borrow().clone()
BorrowClone(e) == watch

\* changed() => the cooldown has not passed: continue
EndpointSkip(e) ==
    /\ ChangedReady(e)
    /\ InCooldown(e)
    /\ ep_changed' = [ep_changed EXCEPT ![e] = FALSE]
    /\ notif_pending' = [notif_pending EXCEPT ![e] = 0]
    /\ prev_sent' = [prev_sent EXCEPT ![e] = FALSE]
    /\ UNCHANGED <<ep_pc, last_sent, since_ok, ep_result, ep_busy, ep_body, since_notif, notif_gap>>
    /\ UNCHANGED <<shutdown, cfgVars, fn_ret, rocket_pc, watch_open>>
    /\ UNCHANGED dataVars
    /\ UNCHANGED nutVars

\* a dispatcher that posts to one endpoint at a time
EndpointSendStart_Serial(e) ==
    /\ ChangedReady(e)
    /\ ~InCooldown(e)
    /\ \A o \in Endpoints \ {e} : ep_pc[o] # "sending"
    /\ ep_changed' = [ep_changed EXCEPT ![e] = FALSE]
    /\ ep_pc' = [ep_pc EXCEPT ![e] = "sending"]
    /\ ep_body' = [ep_body EXCEPT ![e] = Some(BorrowClone(e))]
    /\ ep_busy' = [ep_busy EXCEPT ![e] = 0]
    /\ notif_pending' = [notif_pending EXCEPT ![e] = 0]
    /\ prev_sent' = [prev_sent EXCEPT ![e] = e \in observed]
    /\ UNCHANGED <<last_sent, since_ok, ep_result, since_notif, notif_gap>>
    /\ UNCHANGED <<shutdown, cfgVars, fn_ret, rocket_pc, watch_open>>
    /\ UNCHANGED dataVars
    /\ UNCHANGED nutVars

\* changed() => the current value is cloned and send_data posts it
EndpointSendStart(e) ==
    /\ ChangedReady(e)
    /\ ~InCooldown(e)
    /\ ep_changed' = [ep_changed EXCEPT ![e] = FALSE]
    /\ ep_pc' = [ep_pc EXCEPT ![e] = "sending"]
    /\ ep_body' = [ep_body EXCEPT ![e] = Some(BorrowClone(e))]
    /\ ep_busy' = [ep_busy EXCEPT ![e] = 0]
    /\ notif_pending' = [notif_pending EXCEPT ![e] = 0]
    /\ prev_sent' = [prev_sent EXCEPT ![e] = e \in observed]
    /\ UNCHANGED <<last_sent, since_ok, ep_result, since_notif, notif_gap>>
    /\ UNCHANGED <<shutdown, cfgVars, fn_ret, rocket_pc, watch_open>>
    /\ UNCHANGED dataVars
    /\ UNCHANGED nutVars

\* the ways a request ends: a success status (with a body that is JSON or
\* not), another status, a connection error, the timeout
SendOutcomes == {"success", "success_unparsed", "status", "connect_error", "timeout"}

\* response.status().is_success()
IsSuccess(outcome) == outcome \in {"success", "success_unparsed"}

\* send_data's tracing::warn!: a status that is not a success, or an error
\* unless it is a connection error and those are ignored
Warns(outcome) ==
    \/ outcome = "status"
    \/ outcome = "timeout"
    \/ outcome = "connect_error" /\ ~ignore_errors

\* what is remembered of a send
NoResult == [outcome |-> "none", warned |-> FALSE]

\* #[cfg(debug_assertions)] response.json().await.unwrap(): panics on a
\* success response whose body is not JSON
SendPanics(outcome) == debug_build /\ outcome = "success_unparsed"

\* a loop that ends on a connection error that is not ignored
EndpointSendDone_BreakOnError(e) ==
    /\ ep_pc[e] = "sending"
    /\ \E outcome \in SendOutcomes :
          /\ outcome = "timeout" => ep_busy[e] = SendTimeout
          /\ since_ok' = IF e \in recorded /\ IsSuccess(outcome) /\ ~SendPanics(outcome)
                         THEN [since_ok EXCEPT ![e] = Some(0)] ELSE since_ok
          /\ ep_result' = IF e \in recorded
                          THEN [ep_result EXCEPT ![e] =
                                  [outcome |-> outcome, warned |-> Warns(outcome)]]
                          ELSE ep_result
          /\ IF SendPanics(outcome)
             THEN /\ ep_pc' = [ep_pc EXCEPT ![e] = "panicked"]
                  /\ UNCHANGED last_sent
             ELSE IF outcome = "connect_error" /\ ~ignore_errors
             THEN /\ ep_pc' = [ep_pc EXCEPT ![e] = "returned"]
                  /\ UNCHANGED last_sent
             ELSE /\ ep_pc' = [ep_pc EXCEPT ![e] = "select"]
                  /\ last_sent' = [last_sent EXCEPT ![e] = Some(0)]
    /\ ep_body' = [ep_body EXCEPT ![e] = None]
    /\ ep_busy' = [ep_busy EXCEPT ![e] = 0]
    /\ UNCHANGED <<ep_changed, notifVars>>
    /\ UNCHANGED <<shutdown, cfgVars, fn_ret, rocket_pc, watch_open>>
    /\ UNCHANGED dataVars
    /\ UNCHANGED nutVars

\* send_data returns, whatever the outcome: last_sent = Some(Instant::now());
\* a panic inside send_data ends the task instead
EndpointSendDone(e) ==
    /\ ep_pc[e] = "sending"
    /\ \E outcome \in SendOutcomes :
          /\ outcome = "timeout" => ep_busy[e] = SendTimeout
          /\ since_ok' = IF e \in recorded /\ IsSuccess(outcome) /\ ~SendPanics(outcome)
                         THEN [since_ok EXCEPT ![e] = Some(0)] ELSE since_ok
          /\ ep_result' = IF e \in recorded
                          THEN [ep_result EXCEPT ![e] =
                                  [outcome |-> outcome, warned |-> Warns(outcome)]]
                          ELSE ep_result
          /\ IF SendPanics(outcome)
             THEN /\ ep_pc' = [ep_pc EXCEPT ![e] = "panicked"]
                  /\ UNCHANGED last_sent
             ELSE /\ ep_pc' = [ep_pc EXCEPT ![e] = "select"]
                  /\ last_sent' = [last_sent EXCEPT ![e] = Some(0)]
    /\ ep_body' = [ep_body EXCEPT ![e] = None]
    /\ ep_busy' = [ep_busy EXCEPT ![e] = 0]
    /\ UNCHANGED <<ep_changed, notifVars>>
    /\ UNCHANGED <<shutdown, cfgVars, fn_ret, rocket_pc, watch_open>>
    /\ UNCHANGED dataVars
    /\ UNCHANGED nutVars

\* a clock that raises the change again when a cooldown expires
EndpointTick_Requeue ==
    /\ \A e \in Endpoints : ~ChangedReady(e)
    /\ merger_pc = "select" =>
          \A f \in Families \ merger_off : ~CanRecv(f, "merger") /\ ~lagged[f]["merger"]
    /\ \A e \in Endpoints : ep_pc[e] = "sending" => ep_busy[e] < SendTimeout
    /\ \/ observed # {} /\ since_notif < MaxElapsed
       \/ \E e \in Endpoints :
             \/ ep_pc[e] = "sending"
             \/ IsSome(last_sent[e]) /\ Unwrap(last_sent[e]) < MaxElapsed
             \/ IsSome(since_ok[e]) /\ Unwrap(since_ok[e]) < MaxElapsed
    /\ ep_busy' = [e \in Endpoints |->
                     IF ep_pc[e] = "sending" THEN ep_busy[e] + 1 ELSE ep_busy[e]]
    /\ last_sent' = [e \in Endpoints |->
                       IF IsSome(last_sent[e]) /\ Unwrap(last_sent[e]) < MaxElapsed
                       THEN Some(Unwrap(last_sent[e]) + 1) ELSE last_sent[e]]
    /\ since_ok' = [e \in Endpoints |->
                      IF IsSome(since_ok[e]) /\ Unwrap(since_ok[e]) < MaxElapsed
                      THEN Some(Unwrap(since_ok[e]) + 1) ELSE since_ok[e]]
    /\ since_notif' = IF observed # {} /\ since_notif < MaxElapsed
                      THEN since_notif + 1 ELSE since_notif
    /\ ep_changed' = [e \in Endpoints |->
                        ep_changed[e] \/ (ep_pc[e] = "select" /\ last_sent[e] = Some(EndpointCooldown))]
    /\ UNCHANGED <<ep_pc, ep_body, ep_result, notif_gap, notif_pending, prev_sent>>
    /\ UNCHANGED <<shutdown, cfgVars, fn_ret, rocket_pc, watch_open>>
    /\ UNCHANGED dataVars
    /\ UNCHANGED nutVars

\* one second passes; a loop waiting in its select! is woken without delay
\* and a request does not outlast its timeout
EndpointTick ==
    /\ \A e \in Endpoints : ~ChangedReady(e)
    /\ merger_pc = "select" =>
          \A f \in Families \ merger_off : ~CanRecv(f, "merger") /\ ~lagged[f]["merger"]
    /\ \A e \in Endpoints : ep_pc[e] = "sending" => ep_busy[e] < SendTimeout
    /\ \/ observed # {} /\ since_notif < MaxElapsed
       \/ \E e \in Endpoints :
             \/ ep_pc[e] = "sending"
             \/ IsSome(last_sent[e]) /\ Unwrap(last_sent[e]) < MaxElapsed
             \/ IsSome(since_ok[e]) /\ Unwrap(since_ok[e]) < MaxElapsed
    /\ ep_busy' = [e \in Endpoints |->
                     IF ep_pc[e] = "sending" THEN ep_busy[e] + 1 ELSE ep_busy[e]]
    /\ last_sent' = [e \in Endpoints |->
                       IF IsSome(last_sent[e]) /\ Unwrap(last_sent[e]) < MaxElapsed
                       THEN Some(Unwrap(last_sent[e]) + 1) ELSE last_sent[e]]
    /\ since_ok' = [e \in Endpoints |->
                      IF IsSome(since_ok[e]) /\ Unwrap(since_ok[e]) < MaxElapsed
                      THEN Some(Unwrap(since_ok[e]) + 1) ELSE since_ok[e]]
    /\ since_notif' = IF observed # {} /\ since_notif < MaxElapsed
                      THEN since_notif + 1 ELSE since_notif
    /\ UNCHANGED <<ep_pc, ep_changed, ep_body, ep_result, notif_gap, notif_pending, prev_sent>>
    /\ UNCHANGED <<shutdown, cfgVars, fn_ret, rocket_pc, watch_open>>
    /\ UNCHANGED dataVars
    /\ UNCHANGED nutVars

\* ------------------------------------------------------------------------
\* passive_endpoint::receiver: CachedData and the cache updater loop
\* ------------------------------------------------------------------------
\* if !config.is_enabled() { return; }, else rocket and the updater are spawned
PassiveStart ==
    /\ upd_pc = "start"
    /\ IF enabled["passive_endpoint"]
       THEN /\ upd_pc' = "select"
            /\ rocket_pc' = "running"
            /\ UNCHANGED <<receivers, chan, lagged, fn_ret>>
       ELSE /\ upd_pc' = "returned"
            /\ DropReceivers("cache")
            /\ Returns("passive_endpoint")
            /\ UNCHANGED rocket_pc
    /\ UNCHANGED <<enabled, ow_pc, ow_dropped, merger_pc, merger_off, data_to_send, watch,
                   cache, wlock, upd_off, upd_family, upd_value, upd_i, committed>>
    /\ NoResponsePending
    /\ UNCHANGED rd
    /\ UNCHANGED nutVars
    /\ UNCHANGED <<shutdown, cfgVars, watch_open, epVars, notifVars>>

\* an updater that applies a received value to the other family
CacheRecv_Crossed(f) ==
    /\ upd_pc = "select"
    /\ f \notin upd_off
    /\ CanRecv(f, "cache")
    /\ chan' = [chan EXCEPT ![f]["cache"] = Tail(@)]
    /\ upd_family' = CHOOSE g \in Families : g # f
    /\ upd_value' = Head(chan[f]["cache"])
    /\ upd_i' = 0
    /\ upd_off' = {}
    /\ upd_pc' = "set_vec"
    /\ UNCHANGED <<enabled, ow_pc, ow_dropped, receivers, lagged, merger_pc, merger_off,
                   data_to_send, watch, cache, wlock, committed>>
    /\ NoResponsePending
    /\ UNCHANGED rd
    /\ UNCHANGED nutVars
    /\ UNCHANGED lifeVars

\* Ok(value) = <family>_rx.recv() => cache.set_<family>(value) is entered
CacheRecv(f) ==
    /\ upd_pc = "select"
    /\ f \notin upd_off
    /\ CanRecv(f, "cache")
    /\ chan' = [chan EXCEPT ![f]["cache"] = Tail(@)]
    /\ upd_family' = f
    /\ upd_value' = Head(chan[f]["cache"])
    /\ upd_i' = 0
    /\ upd_off' = {}
    /\ upd_pc' = "set_vec"
    /\ UNCHANGED <<enabled, ow_pc, ow_dropped, receivers, lagged, merger_pc, merger_off,
                   data_to_send, watch, cache, wlock, committed>>
    /\ NoResponsePending
    /\ UNCHANGED rd
    /\ UNCHANGED nutVars
    /\ UNCHANGED lifeVars

\* recv() yields Err(Lagged): the branch is disabled for this select!
CacheLagged(f) ==
    /\ upd_pc = "select"
    /\ f \notin upd_off
    /\ "cache" \in receivers[f]
    /\ lagged[f]["cache"]
    /\ lagged' = [lagged EXCEPT ![f]["cache"] = FALSE]
    /\ upd_off' = upd_off \cup {f}
    /\ UNCHANGED <<enabled, ow_pc, ow_dropped, receivers, chan, merger_pc, merger_off,
                   data_to_send, watch, cache, wlock, upd_pc, upd_family, upd_value,
                   upd_i, committed>>
    /\ NoResponsePending
    /\ UNCHANGED rd
    /\ UNCHANGED nutVars
    /\ UNCHANGED lifeVars

\* *self.<vec>.write().await = items.clone(); the write guard is a temporary
\* of this statement and is released at its end
SetWriteVec ==
    /\ upd_pc = "set_vec"
    /\ VecField(upd_family) \notin wlock
    /\ cache' = [cache EXCEPT ![VecField(upd_family)] = upd_value]
    /\ upd_pc' = "set_lock"
    /\ UNCHANGED <<enabled, ow_pc, ow_dropped, receivers, chan, lagged, merger_pc,
                   merger_off, data_to_send, watch, wlock, upd_off, upd_family,
                   upd_value, upd_i, committed>>
    /\ NoResponsePending
    /\ UNCHANGED rd
    /\ UNCHANGED nutVars
    /\ UNCHANGED lifeVars

\* the map's write guard taken as a temporary and released at once
SetLockMap_GuardDropped ==
    /\ upd_pc = "set_lock"
    /\ MapField(upd_family) \notin wlock
    /\ upd_pc' = "set_clear"
    /\ UNCHANGED <<enabled, ow_pc, ow_dropped, receivers, chan, lagged, merger_pc,
                   merger_off, data_to_send, watch, cache, wlock, upd_off, upd_family,
                   upd_value, upd_i, committed>>
    /\ NoResponsePending
    /\ UNCHANGED rd
    /\ UNCHANGED nutVars
    /\ UNCHANGED lifeVars

\* let hash_map = self.<by_hw_id>.write().await; the guard lives to the end
\* of the function
SetLockMap ==
    /\ upd_pc = "set_lock"
    /\ MapField(upd_family) \notin wlock
    /\ wlock' = wlock \cup {MapField(upd_family)}
    /\ upd_pc' = "set_clear"
    /\ UNCHANGED <<enabled, ow_pc, ow_dropped, receivers, chan, lagged, merger_pc,
                   merger_off, data_to_send, watch, cache, upd_off, upd_family,
                   upd_value, upd_i, committed>>
    /\ NoResponsePending
    /\ UNCHANGED rd
    /\ UNCHANGED nutVars
    /\ UNCHANGED lifeVars

\* a set that leaves the old entries of the map in place
SetClearMap_KeepOld ==
    /\ upd_pc = "set_clear"
    /\ upd_pc' = "set_insert"
    /\ UNCHANGED <<enabled, ow_pc, ow_dropped, receivers, chan, lagged, merger_pc,
                   merger_off, data_to_send, watch, cache, wlock, upd_off, upd_family,
                   upd_value, upd_i, committed>>
    /\ NoResponsePending
    /\ UNCHANGED rd
    /\ UNCHANGED nutVars
    /\ UNCHANGED lifeVars

\* a set that clears the mappings of both families
SetClearMap_BothFamilies ==
    /\ upd_pc = "set_clear"
    /\ cache' = [cache EXCEPT !.temperature_sensors_by_hw_id = EmptyMap,
                              !.upses_by_hw_id = EmptyMap]
    /\ upd_pc' = "set_insert"
    /\ UNCHANGED <<enabled, ow_pc, ow_dropped, receivers, chan, lagged, merger_pc,
                   merger_off, data_to_send, watch, wlock, upd_off, upd_family,
                   upd_value, upd_i, committed>>
    /\ NoResponsePending
    /\ UNCHANGED rd
    /\ UNCHANGED nutVars
    /\ UNCHANGED lifeVars

\* a set that keeps the entries of the mapping and adds the new ones to them
SetClearMap_Keep ==
    /\ upd_pc = "set_clear"
    /\ upd_pc' = "set_insert"
    /\ UNCHANGED <<enabled, ow_pc, ow_dropped, receivers, chan, lagged, merger_pc,
                   merger_off, data_to_send, watch, cache, wlock, upd_off, upd_family,
                   upd_value, upd_i, committed>>
    /\ NoResponsePending
    /\ UNCHANGED rd
    /\ UNCHANGED nutVars
    /\ UNCHANGED lifeVars

\* hash_map.clear()
SetClearMap ==
    /\ upd_pc = "set_clear"
    /\ cache' = [cache EXCEPT ![MapField(upd_family)] = EmptyMap]
    /\ upd_pc' = "set_insert"
    /\ UNCHANGED <<enabled, ow_pc, ow_dropped, receivers, chan, lagged, merger_pc,
                   merger_off, data_to_send, watch, wlock, upd_off, upd_family,
                   upd_value, upd_i, committed>>
    /\ NoResponsePending
    /\ UNCHANGED rd
    /\ UNCHANGED nutVars
    /\ UNCHANGED lifeVars

\* one iteration of: for item in items { hash_map.insert(item.meta.hw.id, item) }
SetInsert ==
    /\ upd_pc = "set_insert"
    /\ upd_i < Len(upd_value)
    /\ cache' = [cache EXCEPT ![MapField(upd_family)] =
                   MapInsert(@, upd_value[upd_i + 1].meta.hw.id, upd_value[upd_i + 1])]
    /\ upd_i' = upd_i + 1
    /\ UNCHANGED <<enabled, ow_pc, ow_dropped, receivers, chan, lagged, merger_pc,
                   merger_off, data_to_send, watch, wlock, upd_pc, upd_off, upd_family,
                   upd_value, committed>>
    /\ NoResponsePending
    /\ UNCHANGED rd
    /\ UNCHANGED nutVars
    /\ UNCHANGED lifeVars

\* the function returns: the map's write guard is dropped, back to select!
SetReturn ==
    /\ upd_pc = "set_insert"
    /\ upd_i = Len(upd_value)
    /\ wlock' = wlock \ {MapField(upd_family)}
    /\ committed' = [committed EXCEPT ![upd_family] = upd_value]
    /\ upd_value' = <<>>
    /\ upd_i' = 0
    /\ upd_pc' = "select"
    /\ UNCHANGED <<enabled, ow_pc, ow_dropped, receivers, chan, lagged, merger_pc,
                   merger_off, data_to_send, watch, cache, upd_off, upd_family>>
    /\ NoResponsePending
    /\ UNCHANGED rd
    /\ UNCHANGED nutVars
    /\ UNCHANGED lifeVars

\* the set in progress, if any: its family and argument
SetInProgress(f) == upd_pc \in {"set_vec", "set_lock", "set_clear", "set_insert"} /\ upd_family = f

\* ids a request may ask for
LookupIds(f) ==
    IF f = "temperature" THEN {DevA, DevB} ELSE {"[ups1]ups-monitor@localhost:3493"}

\* get_temperature_sensors / get_upses: self.<vec>.read().await.clone()
get_all(f) == cache[VecField(f)]

\* get_temperature_sensor_by_hw_id / get_ups_by_hw_id:
\* self.<by_hw_id>.read().await.get(&id).cloned()
get_by_hw_id(f, id) == MapGet(cache[MapField(f)], id)

\* a read lock is granted while no writer holds the RwLock
CanReadLock(field) == field \notin wlock

\* what is remembered of a read: the request, its result, and the arguments
\* of the last completed set and of the set in progress at that moment
ReadRecord(op, f, id, result) ==
    [op |-> op, family |-> f, id |-> id, result |-> result,
     before |-> committed[f],
     after |-> IF SetInProgress(f) THEN upd_value ELSE committed[f]]

\* GET /temperature, GET /ups
ReadAll(f) ==
    /\ upd_pc \notin {"start", "returned"}
    /\ NoResponsePending
    /\ CanReadLock(VecField(f))
    /\ rd' = ReadRecord("get_all", f, "", get_all(f))
    /\ UNCHANGED <<enabled, ow_pc, ow_dropped, receivers, chan, lagged, merger_pc,
                   merger_off, data_to_send, watch, cache, wlock, upd_pc, upd_off,
                   upd_family, upd_value, upd_i, committed>>
    /\ UNCHANGED nutVars
    /\ UNCHANGED lifeVars

\* GET /temperature/<id>, GET /ups/<id>
ReadById(f, id) ==
    /\ upd_pc \notin {"start", "returned"}
    /\ NoResponsePending
    /\ CanReadLock(MapField(f))
    /\ rd' = ReadRecord("get_by_id", f, id, get_by_hw_id(f, id))
    /\ UNCHANGED <<enabled, ow_pc, ow_dropped, receivers, chan, lagged, merger_pc,
                   merger_off, data_to_send, watch, cache, wlock, upd_pc, upd_off,
                   upd_family, upd_value, upd_i, committed>>
    /\ UNCHANGED nutVars
    /\ UNCHANGED lifeVars

\* an ApiResponse that reports success whatever the data
ApiResponseNew_AlwaysSuccess(data) ==
    [success |-> TRUE,
     error |-> IF data = None THEN Some("not found") ELSE None,
     data |-> data]

\* ApiResponse::new: error is "not found" if data is None, success is
\* error.is_none()
ApiResponseNew(data) ==
    LET error == IF data = None THEN Some("not found") ELSE None
    IN [success |-> error = None, error |-> error, data |-> data]

\* the four routes: the get-all routes answer Json(ApiResponse::new(Some(..)))
\* with the default status, the by-id routes answer NotFound if !data.success
RouteResponse(op, result) ==
    IF op = "get_all"
    THEN [status |-> "Ok", body |-> ApiResponseNew(Some(result))]
    ELSE LET data == ApiResponseNew(result)
         IN [status |-> IF ~data.success THEN "NotFound" ELSE "Ok", body |-> data]

\* the route wraps the result in an ApiResponse and answers the request
ReadDone ==
    /\ ~NoResponsePending
    /\ rd' = NoRead
    /\ UNCHANGED <<enabled, ow_pc, ow_dropped, receivers, chan, lagged, merger_pc,
                   merger_off, data_to_send, watch, cache, wlock, upd_pc, upd_off,
                   upd_family, upd_value, upd_i, committed>>
    /\ UNCHANGED nutVars
    /\ UNCHANGED lifeVars

\* ------------------------------------------------------------------------
\* nut::config, nut::client: the configured server and its UPSes
\* ------------------------------------------------------------------------
\* rups::DEFAULT_PORT
DefaultPort == 3493

\* NetworkUpsToolsClientConfig::get_server_id: "{username}@{host}:{port}"
get_server_id(username, host, port) ==
    (IF IsSome(username) THEN Unwrap(username) ELSE "") \o "@" \o host \o ":"
    \o ToString(IF IsSome(port) THEN Unwrap(port) ELSE DefaultPort)

\* the server of NetworkUpsToolsClientConfig::example()
ServerId == get_server_id(Some("ups-monitor"), "localhost", None)

DefaultVariables ==
    <<"battery.charge", "battery.charge.low", "battery.runtime", "battery.runtime.low",
      "input.frequency", "input.voltage", "output.frequency", "output.frequency.nominal",
      "output.voltage", "output.voltage.nominal", "ups.load", "ups.power",
      "ups.power.nominal", "ups.realpower", "ups.status">>

\* UninterruptiblePowerSupply::new: id = "[ups_name]server_id"; no (or an
\* empty) list of variables means the defaults
UninterruptiblePowerSupply(ups_name, server_id, variables_to_monitor) ==
    [meta |-> HardwareMetadata("[" \o ups_name \o "]" \o server_id,
                               "UninterruptiblePowerSupply", "NetworkUpsTools"),
     ups_name |-> ups_name,
     variables_to_monitor |->
        IF IsSome(variables_to_monitor) /\ Unwrap(variables_to_monitor) # <<>>
        THEN Unwrap(variables_to_monitor)
        ELSE DefaultVariables]

\* NetworkUpsToolsClientConfig::get_upses
get_upses(ups_configs, server_id) ==
    [i \in 1..Len(ups_configs) |->
        UninterruptiblePowerSupply(ups_configs[i].name, server_id,
                                   ups_configs[i].variables_to_monitor)]

\* UninterruptiblePowerSupplyData::new
UninterruptiblePowerSupplyData(ups, variables) ==
    [meta |-> ups.meta, variables |-> variables]

\* the `upses` lists of the server configurations explored
UpsConfigs ==
    { <<>>,
      <<[name |-> "ups1", variables_to_monitor |-> Some(<<"battery.charge", "ups.status">>)]>>,
      <<[name |-> "ups1", variables_to_monitor |-> Some(<<"battery.charge">>)],
        [name |-> "ups2", variables_to_monitor |-> Some(<<"ups.load">>)]>> }

\* values a get_var call can return
VarValues == {"100", "OL"}

\* ------------------------------------------------------------------------
\* nut::client: time, locks, sessions
\* ------------------------------------------------------------------------
\* NetworkUpsToolsClient.cooldown, in seconds: the configured value explored
\* is half an hour, so that the backoff grows twice before the limit cuts it
Cooldown == 1800

\* Duration::from_secs(3600), the limit of one backoff sleep
MaxSleep == 3600

\* granularity of the clock
TickStep == Cooldown \div 2

\* connects that may fail in a row
MaxFailedAttempts == 3

Min(a, b) == IF a <= b THEN a ELSE b

\* failed_attempts is a u32: it is held as its two 16-bit halves, so that the
\* whole range up to u32::MAX = 65535 * 65536 + 65535 is represented
Half == 2^16

U32Zero == [hi |-> 0, lo |-> 0]

U32Max == [hi |-> Half - 1, lo |-> Half - 1]

\* the u32 of a small number
U32Of(n) == [hi |-> n \div Half, lo |-> n % Half]

\* wrapping_add(1) in place of saturating_add(1)
saturating_add1_Wrapping(x) ==
    IF x.lo < Half - 1 THEN [x EXCEPT !.lo = @ + 1]
    ELSE [hi |-> (x.hi + 1) % Half, lo |-> 0]

\* u32::saturating_add(1)
saturating_add1(x) ==
    IF x = U32Max THEN U32Max
    ELSE IF x.lo < Half - 1 THEN [x EXCEPT !.lo = @ + 1]
    ELSE [hi |-> x.hi + 1, lo |-> 0]

\* the tasks that may call query_all_upses on the one client
Callers == {1, 2}

\* identities of the sessions Connection::new hands out
Sessions == {1, 2}

\* the identities no stored or taken session bears
FreeSessions ==
    {s \in Sessions : connection # Some(s) /\ \A t \in Callers : loc[t].conn # Some(s)}

\* the session Connection::new returns: a new one, told apart from every
\* session still around and, while identities last, from the dead ones
NewSession ==
    IF FreeSessions \ dead # {}
    THEN CHOOSE s \in FreeSessions \ dead : TRUE
    ELSE CHOOSE s \in FreeSessions : TRUE

\* a backoff that does not grow with the failures
sleep_for_Flat(attempts) == Min(Cooldown, MaxSleep)

\* min(self.cooldown.saturating_mul(failed_attempts), Duration::from_secs(3600))
\* (a count of 65536 or more is at least Cooldown * 65536 seconds)
sleep_for(attempts) ==
    IF attempts.hi > 0 THEN Min(Cooldown * Half, MaxSleep)
    ELSE Min(Cooldown * attempts.lo, MaxSleep)

\* locals of a caller with no call in progress
NoLocals ==
    [conn |-> None, is_connected |-> FALSE, u |-> 0, v |-> 0,
     variables_with_values |-> EmptyMap, data_from_upses |-> <<>>]

\* history of a batch: per device whether a session was taken, and every
\* get_var call with its outcome
NoCalls == [took |-> <<>>, get_var |-> <<>>]

\* outcomes the server allows to a connect or a liveness check
Outcomes == IF stable THEN {TRUE} ELSE {TRUE, FALSE}

\* ------------------------------------------------------------------------
\* nut::sender::start_nut_client_loop and nut::client::NetworkUpsToolsClient
\* ------------------------------------------------------------------------
\* start_nut_monitoring_loop: if !config.is_enabled() { return; }, else the
\* client loop of the server is spawned
NutStart(t) ==
    /\ pc[t] = "start"
    /\ IF enabled["ups_monitoring"]
       THEN pc' = [pc EXCEPT ![t] = "call"] /\ UNCHANGED fn_ret
       ELSE pc' = [pc EXCEPT ![t] = "returned"] /\ Returns("ups_monitoring")
    /\ UNCHANGED <<upses, connection, conn_lock, failed_attempts, fa_wlock, loc, sleep_left,
                   stable, since_fail, since_connect, consec_fail, dead, calls>>
    /\ UNCHANGED dataVars
    /\ UNCHANGED <<shutdown, cfgVars, rocket_pc, watch_open, epVars, notifVars>>

RECURSIVE PartialMaps(_)
\* every mapping of some of the given variables to a value
PartialMaps(variables) ==
    IF variables = <<>> THEN {EmptyMap}
    ELSE LET rest == PartialMaps(Tail(variables))
         IN rest \cup {MapInsert(m, Head(variables), x) : m \in rest, x \in VarValues}

\* the batches query_all_upses can return: one reading per configured UPS,
\* each with any part of its variables answered
BatchesOf(list) ==
    {b \in [1..Len(list) -> UNION {{UninterruptiblePowerSupplyData(list[i], m) :
                                       m \in PartialMaps(list[i].variables_to_monitor)} :
                                    i \in 1..Len(list)}] :
        \A i \in 1..Len(list) : b[i].meta = list[i].meta}

Batches == BatchesOf(upses)

\* one iteration of the client loop seen from the channel: query_all_upses
\* returns some batch, which is sent if anybody listens
NutBatch(t) ==
    /\ pc[t] = "call"
    /\ \E b \in Batches :
         IF receiver_count("ups") > 0
         THEN Send("ups", b)
         ELSE UNCHANGED <<chan, lagged>>
    /\ pc' = [pc EXCEPT ![t] = "cooldown"]
    /\ UNCHANGED <<upses, connection, conn_lock, failed_attempts, fa_wlock, loc, sleep_left,
                   stable, since_fail, since_connect, consec_fail, dead, calls>>
    /\ UNCHANGED <<enabled, ow_pc, ow_dropped, receivers, merger_pc, merger_off,
                   data_to_send, watch, cache, wlock, upd_pc, upd_off, upd_family,
                   upd_value, upd_i, committed>>
    /\ NoResponsePending
    /\ UNCHANGED rd
    /\ UNCHANGED lifeVars

\* query_all_upses returns some batch: the iteration seen from the channel,
\* up to the publication
NutQueried(t) ==
    /\ pc[t] = "call"
    /\ \E b \in Batches : loc' = [loc EXCEPT ![t].data_from_upses = b]
    /\ pc' = [pc EXCEPT ![t] = "publish"]
    /\ UNCHANGED <<upses, connection, conn_lock, failed_attempts, fa_wlock, sleep_left,
                   stable, since_fail, since_connect, consec_fail, dead, calls>>
    /\ UNCHANGED dataVars
    /\ UNCHANGED lifeVars

\* if tx.receiver_count() > 0: the count is read; the send is a later step
\* of the task, and Receivers are dropped by other tasks
PublishCheck(t) ==
    /\ pc[t] = "publish"
    /\ pc' = [pc EXCEPT ![t] = IF receiver_count("ups") > 0 THEN "send" ELSE "cooldown"]
    /\ UNCHANGED <<upses, connection, conn_lock, failed_attempts, fa_wlock, loc, sleep_left,
                   stable, since_fail, since_connect, consec_fail, dead, calls>>
    /\ UNCHANGED dataVars
    /\ UNCHANGED lifeVars

\* tx.send(upses_with_variables).unwrap(): Sender::send is Err when no
\* Receiver is left, and unwrap panics on it
PublishSend(t) ==
    /\ pc[t] = "send"
    /\ IF receiver_count("ups") > 0
       THEN /\ Send("ups", loc[t].data_from_upses)
            /\ pc' = [pc EXCEPT ![t] = "cooldown"]
       ELSE /\ pc' = [pc EXCEPT ![t] = "panicked"]
            /\ UNCHANGED <<chan, lagged>>
    /\ UNCHANGED <<upses, connection, conn_lock, failed_attempts, fa_wlock, loc, sleep_left,
                   stable, since_fail, since_connect, consec_fail, dead, calls>>
    /\ UNCHANGED <<enabled, ow_pc, ow_dropped, receivers, merger_pc, merger_off,
                   data_to_send, watch, cache, wlock, upd_pc, upd_off, upd_family,
                   upd_value, upd_i, committed>>
    /\ NoResponsePending
    /\ UNCHANGED rd
    /\ UNCHANGED lifeVars

\* loop { client.query_all_upses() ...: the call is entered
NutCall(t) ==
    /\ pc[t] = "call"
    /\ pc' = [pc EXCEPT ![t] = "ic_lock"]
    /\ loc' = [loc EXCEPT ![t] = NoLocals]
    /\ calls' = [calls EXCEPT ![t] = NoCalls]
    /\ UNCHANGED <<upses, connection, conn_lock, failed_attempts, fa_wlock, sleep_left,
                   stable, since_fail, since_connect, consec_fail, dead>>
    /\ UNCHANGED dataVars
    /\ UNCHANGED lifeVars

\* is_connected: the lock is acquired and the connection taken; with none
\* stored the function returns false at once
IsConnectedTake(t) ==
    /\ pc[t] = "ic_lock"
    /\ conn_lock = 0
    /\ IF IsSome(connection)
       THEN /\ conn_lock' = t
            /\ loc' = [loc EXCEPT ![t].conn = connection]
            /\ connection' = None
            /\ pc' = [pc EXCEPT ![t] = "ic_version"]
       ELSE /\ loc' = [loc EXCEPT ![t].is_connected = FALSE]
            /\ pc' = [pc EXCEPT ![t] = "read_fa"]
            /\ UNCHANGED <<conn_lock, connection>>
    /\ UNCHANGED <<upses, failed_attempts, fa_wlock, sleep_left, stable, since_fail,
                   since_connect, consec_fail, dead, calls>>
    /\ UNCHANGED dataVars
    /\ UNCHANGED lifeVars

\* an is_connected that puts the connection back whatever the answer
IsConnectedVersion_PutBack(t) ==
    /\ pc[t] = "ic_version"
    /\ \E ok \in Outcomes :
         IF ok
         THEN /\ loc' = [loc EXCEPT ![t].conn = None, ![t].is_connected = TRUE]
              /\ pc' = [pc EXCEPT ![t] = "qa_begin"]
              /\ dead' = dead
         ELSE /\ loc' = [loc EXCEPT ![t].conn = None, ![t].is_connected = FALSE]
              /\ pc' = [pc EXCEPT ![t] = "read_fa"]
              /\ dead' = dead \cup {Unwrap(loc[t].conn)}
    /\ connection' = loc[t].conn
    /\ conn_lock' = 0
    /\ UNCHANGED <<upses, failed_attempts, fa_wlock, sleep_left, stable, since_fail,
                   since_connect, consec_fail, calls>>
    /\ UNCHANGED dataVars
    /\ UNCHANGED lifeVars

\* is_connected: conn.get_server_version() answered; on success the
\* connection is put back, otherwise it is dropped
IsConnectedVersion(t) ==
    /\ pc[t] = "ic_version"
    /\ \E ok \in Outcomes :
         IF ok
         THEN /\ connection' = loc[t].conn
              /\ loc' = [loc EXCEPT ![t].conn = None, ![t].is_connected = TRUE]
              /\ pc' = [pc EXCEPT ![t] = "qa_begin"]
              /\ dead' = dead
         ELSE /\ connection' = connection
              /\ loc' = [loc EXCEPT ![t].conn = None, ![t].is_connected = FALSE]
              /\ pc' = [pc EXCEPT ![t] = "read_fa"]
              /\ dead' = dead \cup {Unwrap(loc[t].conn)}
    /\ conn_lock' = 0
    /\ UNCHANGED <<upses, failed_attempts, fa_wlock, sleep_left, stable, since_fail,
                   since_connect, consec_fail, calls>>
    /\ UNCHANGED dataVars
    /\ UNCHANGED lifeVars

\* connect_if_not_connected: failed_attempts is read, the sleep begins
ReadFailedAttempts(t) ==
    /\ pc[t] = "read_fa"
    /\ ~fa_wlock
    /\ sleep_left' = [sleep_left EXCEPT ![t] = sleep_for(failed_attempts)]
    /\ pc' = [pc EXCEPT ![t] = "sleep"]
    /\ UNCHANGED <<upses, connection, conn_lock, failed_attempts, fa_wlock, loc, stable,
                   since_fail, since_connect, consec_fail, dead, calls>>
    /\ UNCHANGED dataVars
    /\ UNCHANGED lifeVars

\* sleep(sleep_for) is over, connect() is entered
BackoffOver(t) ==
    /\ pc[t] = "sleep"
    /\ sleep_left[t] = 0
    /\ pc' = [pc EXCEPT ![t] = "c_lock"]
    /\ UNCHANGED <<upses, connection, conn_lock, failed_attempts, fa_wlock, loc,
                   sleep_left, stable, since_fail, since_connect, consec_fail, dead, calls>>
    /\ UNCHANGED dataVars
    /\ UNCHANGED lifeVars

\* connect: self.connection.lock().await
ConnectLock(t) ==
    /\ pc[t] = "c_lock"
    /\ conn_lock = 0
    /\ conn_lock' = t
    /\ pc' = [pc EXCEPT ![t] = "c_falock"]
    /\ UNCHANGED <<upses, connection, failed_attempts, fa_wlock, loc, sleep_left, stable,
                   since_fail, since_connect, consec_fail, dead, calls>>
    /\ UNCHANGED dataVars
    /\ UNCHANGED lifeVars

\* connect: self.failed_attempts.write().await, then the counter is raised
\* and Connection::new is started
ConnectCount(t) ==
    /\ pc[t] = "c_falock"
    /\ ~fa_wlock
    /\ fa_wlock' = TRUE
    /\ failed_attempts' = saturating_add1(failed_attempts)
    /\ pc' = [pc EXCEPT ![t] = "c_new"]
    /\ UNCHANGED <<upses, connection, conn_lock, loc, sleep_left, stable, since_fail,
                   since_connect, consec_fail, dead, calls>>
    /\ UNCHANGED dataVars
    /\ UNCHANGED lifeVars

\* a connect_if_not_connected that gives up after one failed connect
ConnectFailed_GiveUp(t) ==
    /\ pc[t] = "c_new"
    /\ FALSE \in Outcomes
    /\ consec_fail < MaxFailedAttempts
    /\ conn_lock' = 0
    /\ fa_wlock' = FALSE
    /\ since_fail' = 0
    /\ since_connect' = 0
    /\ consec_fail' = consec_fail + 1
    /\ pc' = [pc EXCEPT ![t] = "qa_begin"]
    /\ UNCHANGED <<upses, connection, failed_attempts, loc, sleep_left, stable, dead, calls>>
    /\ UNCHANGED dataVars
    /\ UNCHANGED lifeVars

\* connect: Connection::new failed; both guards are dropped at the return
ConnectFailed(t) ==
    /\ pc[t] = "c_new"
    /\ FALSE \in Outcomes
    /\ consec_fail < MaxFailedAttempts
    /\ conn_lock' = 0
    /\ fa_wlock' = FALSE
    /\ since_fail' = 0
    /\ since_connect' = 0
    /\ consec_fail' = consec_fail + 1
    /\ pc' = [pc EXCEPT ![t] = "ic_lock"]
    /\ UNCHANGED <<upses, connection, failed_attempts, loc, sleep_left, stable, dead, calls>>
    /\ UNCHANGED dataVars
    /\ UNCHANGED lifeVars

\* a connect that forgets to store the connection it made
ConnectOk_NotStored(t) ==
    /\ pc[t] = "c_new"
    /\ TRUE \in Outcomes
    /\ failed_attempts' = U32Zero
    /\ conn_lock' = 0
    /\ fa_wlock' = FALSE
    /\ consec_fail' = 0
    /\ since_connect' = 0
    /\ pc' = [pc EXCEPT ![t] = "ic_lock"]
    /\ UNCHANGED <<upses, connection, dead, loc, sleep_left, stable, since_fail, calls>>
    /\ UNCHANGED dataVars
    /\ UNCHANGED lifeVars

\* connect: Connection::new succeeded: the counter is reset, the connection stored
ConnectOk(t) ==
    /\ pc[t] = "c_new"
    /\ TRUE \in Outcomes
    /\ failed_attempts' = U32Zero
    /\ connection' = Some(NewSession)
    /\ dead' = dead \ {NewSession}
    /\ conn_lock' = 0
    /\ fa_wlock' = FALSE
    /\ consec_fail' = 0
    /\ since_connect' = 0
    /\ pc' = [pc EXCEPT ![t] = "ic_lock"]
    /\ UNCHANGED <<upses, loc, sleep_left, stable, since_fail, calls>>
    /\ UNCHANGED dataVars
    /\ UNCHANGED lifeVars

\* query_all_upses: connect_if_not_connected returned, the loop over
\* self.upses begins
QueryAllBegin(t) ==
    /\ pc[t] = "qa_begin"
    /\ loc' = [loc EXCEPT ![t].u = 0, ![t].data_from_upses = <<>>]
    /\ pc' = [pc EXCEPT ![t] = "qv_lock"]
    /\ UNCHANGED <<upses, connection, conn_lock, failed_attempts, fa_wlock, sleep_left,
                   stable, since_fail, since_connect, consec_fail, dead, calls>>
    /\ UNCHANGED dataVars
    /\ UNCHANGED lifeVars

\* a query_variables whose lock guard is released right after the take
QueryVariablesTake_Unlocked(t) ==
    /\ pc[t] = "qv_lock"
    /\ loc[t].u < Len(upses)
    /\ conn_lock = 0
    /\ IF IsSome(connection)
       THEN /\ connection' = None
            /\ loc' = [loc EXCEPT ![t].conn = connection, ![t].v = 0,
                                  ![t].variables_with_values = EmptyMap]
            /\ pc' = [pc EXCEPT ![t] = "qv_get"]
       ELSE /\ loc' = [loc EXCEPT ![t].u = @ + 1,
                         ![t].data_from_upses =
                             Append(@, UninterruptiblePowerSupplyData(upses[loc[t].u + 1], EmptyMap))]
            /\ UNCHANGED <<connection, pc>>
    /\ calls' = [calls EXCEPT ![t].took = Append(@, IsSome(connection))]
    /\ UNCHANGED <<upses, conn_lock, failed_attempts, fa_wlock, sleep_left, stable, since_fail,
                   since_connect, consec_fail, dead>>
    /\ UNCHANGED dataVars
    /\ UNCHANGED lifeVars

\* query_variables of the next UPS: the lock is acquired and the connection
\* taken; with none stored an empty map is returned at once
QueryVariablesTake(t) ==
    /\ pc[t] = "qv_lock"
    /\ loc[t].u < Len(upses)
    /\ conn_lock = 0
    /\ IF IsSome(connection)
       THEN /\ conn_lock' = t
            /\ connection' = None
            /\ loc' = [loc EXCEPT ![t].conn = connection, ![t].v = 0,
                                  ![t].variables_with_values = EmptyMap]
            /\ pc' = [pc EXCEPT ![t] = "qv_get"]
       ELSE /\ loc' = [loc EXCEPT ![t].u = @ + 1,
                         ![t].data_from_upses =
                             Append(@, UninterruptiblePowerSupplyData(upses[loc[t].u + 1], EmptyMap))]
            /\ UNCHANGED <<conn_lock, connection, pc>>
    /\ calls' = [calls EXCEPT ![t].took = Append(@, IsSome(connection))]
    /\ UNCHANGED <<upses, failed_attempts, fa_wlock, sleep_left, stable, since_fail,
                   since_connect, consec_fail, dead>>
    /\ UNCHANGED dataVars
    /\ UNCHANGED lifeVars

\* a mapping that records a failed attribute with an empty value
InsertAnswer_AlwaysInsert(variables, variable_to_get, returned_variable) ==
    MapInsert(variables, variable_to_get,
              IF IsSome(returned_variable) THEN Unwrap(returned_variable) ELSE "")

\* the mapping after one get_var answer: Ok(variable) inserts its value
InsertAnswer(variables, variable_to_get, returned_variable) ==
    IF IsSome(returned_variable)
    THEN MapInsert(variables, variable_to_get, Unwrap(returned_variable))
    ELSE variables

\* query_variables: connection.get_var(ups_name, variable) answered
QueryGetVar(t) ==
    /\ pc[t] = "qv_get"
    /\ loc[t].v < Len(upses[loc[t].u + 1].variables_to_monitor)
    /\ \E returned_variable \in {None} \cup {Some(x) : x \in VarValues} :
         LET variable_to_get == upses[loc[t].u + 1].variables_to_monitor[loc[t].v + 1]
         IN /\ loc' = [loc EXCEPT ![t].v = @ + 1,
                         ![t].variables_with_values =
                             InsertAnswer(@, variable_to_get, returned_variable)]
            /\ calls' = [calls EXCEPT ![t].get_var =
                           Append(@, [u |-> loc[t].u + 1, var |-> variable_to_get,
                                      res |-> returned_variable])]
    /\ UNCHANGED <<upses, connection, conn_lock, failed_attempts, fa_wlock, pc, sleep_left,
                   stable, since_fail, since_connect, consec_fail, dead>>
    /\ UNCHANGED dataVars
    /\ UNCHANGED lifeVars

\* a query_variables that drops the session when no variable was answered
QueryVariablesReturn_DropBroken(t) ==
    /\ pc[t] = "qv_get"
    /\ loc[t].v = Len(upses[loc[t].u + 1].variables_to_monitor)
    /\ connection' = IF loc[t].variables_with_values = EmptyMap THEN None ELSE loc[t].conn
    /\ conn_lock' = 0
    /\ loc' = [loc EXCEPT ![t].conn = None, ![t].u = @ + 1, ![t].v = 0,
                 ![t].variables_with_values = EmptyMap,
                 ![t].data_from_upses =
                     Append(@, UninterruptiblePowerSupplyData(upses[loc[t].u + 1],
                                                              loc[t].variables_with_values))]
    /\ pc' = [pc EXCEPT ![t] = "qv_lock"]
    /\ UNCHANGED <<upses, failed_attempts, fa_wlock, sleep_left, stable, since_fail,
                   since_connect, consec_fail, dead, calls>>
    /\ UNCHANGED dataVars
    /\ UNCHANGED lifeVars

\* query_variables: the sweep is over, the connection is put back, the map
\* returned and pushed as this UPS's reading
QueryVariablesReturn(t) ==
    /\ pc[t] = "qv_get"
    /\ loc[t].v = Len(upses[loc[t].u + 1].variables_to_monitor)
    /\ connection' = loc[t].conn
    /\ conn_lock' = 0
    /\ loc' = [loc EXCEPT ![t].conn = None, ![t].u = @ + 1, ![t].v = 0,
                 ![t].variables_with_values = EmptyMap,
                 ![t].data_from_upses =
                     Append(@, UninterruptiblePowerSupplyData(upses[loc[t].u + 1],
                                                              loc[t].variables_with_values))]
    /\ pc' = [pc EXCEPT ![t] = "qv_lock"]
    /\ UNCHANGED <<upses, failed_attempts, fa_wlock, sleep_left, stable, since_fail,
                   since_connect, consec_fail, dead, calls>>
    /\ UNCHANGED dataVars
    /\ UNCHANGED lifeVars

\* query_all_upses returns data_from_upses
QueryAllReturn(t) ==
    /\ pc[t] = "qv_lock"
    /\ loc[t].u = Len(upses)
    /\ pc' = [pc EXCEPT ![t] = "publish"]
    /\ UNCHANGED <<upses, connection, conn_lock, failed_attempts, fa_wlock, loc, sleep_left,
                   stable, since_fail, since_connect, consec_fail, dead, calls>>
    /\ UNCHANGED dataVars
    /\ UNCHANGED lifeVars

\* if tx.receiver_count() > 0 { tx.send(..) }, then select! on sleep(cooldown)
NutPublish(t) ==
    /\ pc[t] = "publish"
    /\ IF receiver_count("ups") > 0
       THEN Send("ups", loc[t].data_from_upses)
       ELSE UNCHANGED <<chan, lagged>>
    /\ sleep_left' = [sleep_left EXCEPT ![t] = Cooldown]
    /\ pc' = [pc EXCEPT ![t] = "cooldown"]
    /\ UNCHANGED <<upses, connection, conn_lock, failed_attempts, fa_wlock, loc, stable,
                   since_fail, since_connect, consec_fail, dead, calls>>
    /\ UNCHANGED <<enabled, ow_pc, ow_dropped, receivers, merger_pc, merger_off,
                   data_to_send, watch, cache, wlock, upd_pc, upd_off, upd_family,
                   upd_value, upd_i, committed, rd>>
    /\ UNCHANGED lifeVars

\* sleep(cooldown) is over: the next iteration
CooldownOver(t) ==
    /\ pc[t] = "cooldown"
    /\ sleep_left[t] = 0
    /\ pc' = [pc EXCEPT ![t] = "call"]
    /\ UNCHANGED <<upses, connection, conn_lock, failed_attempts, fa_wlock, loc,
                   sleep_left, stable, since_fail, since_connect, consec_fail, dead, calls>>
    /\ UNCHANGED dataVars
    /\ UNCHANGED lifeVars

\* time passes for every sleeping task
Tick ==
    /\ \/ since_fail < MaxSleep
       \/ since_connect < Cooldown
       \/ \E t \in Callers : sleep_left[t] > 0
    /\ sleep_left' = [t \in Callers |-> IF sleep_left[t] > TickStep
                                        THEN sleep_left[t] - TickStep ELSE 0]
    /\ since_fail' = Min(since_fail + TickStep, MaxSleep)
    /\ since_connect' = Min(since_connect + TickStep, Cooldown)
    /\ UNCHANGED <<upses, connection, conn_lock, failed_attempts, fa_wlock, pc, loc, stable,
                   consec_fail, dead, calls>>
    /\ UNCHANGED dataVars
    /\ UNCHANGED lifeVars

\* the server becomes reachable / unreachable
ServerUp ==
    /\ ~stable
    /\ stable' = TRUE
    /\ UNCHANGED <<upses, connection, conn_lock, failed_attempts, fa_wlock, pc, loc,
                   sleep_left, since_fail, since_connect, consec_fail, dead, calls>>
    /\ UNCHANGED dataVars
    /\ UNCHANGED lifeVars

ServerDown ==
    /\ stable
    /\ stable' = FALSE
    /\ UNCHANGED <<upses, connection, conn_lock, failed_attempts, fa_wlock, pc, loc,
                   sleep_left, since_fail, since_connect, consec_fail, dead, calls>>
    /\ UNCHANGED dataVars
    /\ UNCHANGED lifeVars

\* ------------------------------------------------------------------------
\* shutdown_notifier and the shutdown branches of the loops; the joins of the
\* start functions
\* ------------------------------------------------------------------------
\* ctrl_c() resolves: the notifier sends () and returns, dropping the Sender;
\* from then on recv() is ready in every loop, for a Receiver made before the
\* send (the message) as for one resubscribed after it (the channel is closed)
ShutdownFire ==
    /\ ~shutdown
    /\ shutdown' = TRUE
    /\ UNCHANGED <<cfgVars, fn_ret, rocket_pc, watch_open, epVars, since_notif, notif_gap,
                   notif_pending, prev_sent>>
    /\ UNCHANGED dataVars
    /\ UNCHANGED nutVars

\* start_nut_client_loop: _ = shutdown_rx.recv() => break, in the select!
\* that follows the publication
NutLoopShutdown(t) ==
    /\ pc[t] = "cooldown"
    /\ shutdown
    /\ pc' = [pc EXCEPT ![t] = "returned"]
    /\ UNCHANGED <<upses, connection, conn_lock, failed_attempts, fa_wlock, loc, sleep_left,
                   stable, since_fail, since_connect, consec_fail, dead, calls>>
    /\ UNCHANGED dataVars
    /\ UNCHANGED lifeVars

\* the servers the while-let of start_nut_monitoring_loop has already passed
Earlier(t) == {u \in servers : u < t}

\* tokio::spawn(..).await.unwrap(): the task of a server is awaited before
\* the while-let takes the next server
SpawnAllowed(t) == \A u \in Earlier(t) : pc[u] = "returned"

\* the while-let reaches the next server and spawns its client loop
NutSpawnNext(t) ==
    /\ enabled["ups_monitoring"]
    /\ t \in servers
    /\ Earlier(t) # {}
    /\ pc[t] = "off"
    /\ \A u \in Earlier(t) : pc[u] # "off"
    /\ SpawnAllowed(t)
    /\ pc' = [pc EXCEPT ![t] = "call"]
    /\ UNCHANGED <<upses, connection, conn_lock, failed_attempts, fa_wlock, loc, sleep_left,
                   stable, since_fail, since_connect, consec_fail, dead, calls>>
    /\ UNCHANGED dataVars
    /\ UNCHANGED lifeVars

\* the while-let is through: the task of every server was awaited
MonitoringTasksReturned == \A t \in servers : pc[t] = "returned"

\* start_nut_monitoring_loop returns
MonitoringJoin ==
    /\ enabled["ups_monitoring"]
    /\ "ups_monitoring" \notin fn_ret
    /\ MonitoringTasksReturned
    /\ Returns("ups_monitoring")
    /\ UNCHANGED <<shutdown, cfgVars, rocket_pc, watch_open, epVars, since_notif, notif_gap,
                   notif_pending, prev_sent>>
    /\ UNCHANGED dataVars
    /\ UNCHANGED nutVars

\* data merger task: _ = shutdown_rx.recv() => break; the task ends and
\* drops the two Receivers and the watch Sender it owns
MergerShutdown ==
    /\ merger_pc = "select"
    /\ shutdown
    /\ merger_pc' = "returned"
    /\ merger_off' = {}
    /\ DropReceivers("merger")
    /\ watch_open' = FALSE
    /\ UNCHANGED <<enabled, ow_pc, ow_dropped, data_to_send, watch, cache, wlock, upd_pc,
                   upd_off, upd_family, upd_value, upd_i, committed>>
    /\ NoResponsePending
    /\ UNCHANGED rd
    /\ UNCHANGED nutVars
    /\ UNCHANGED <<shutdown, cfgVars, fn_ret, rocket_pc, epVars, since_notif, notif_gap,
                   notif_pending, prev_sent>>

\* client loop: _ = shutdown_rx.recv() => break; select! polls its ready
\* branches in random order, so this branch competes with changed()
EndpointShutdown(e) ==
    /\ ep_pc[e] = "select"
    /\ shutdown
    /\ ep_pc' = [ep_pc EXCEPT ![e] = "returned"]
    /\ UNCHANGED <<ep_changed, last_sent, since_ok, ep_result, ep_busy, ep_body>>
    /\ UNCHANGED <<shutdown, cfgVars, fn_ret, rocket_pc, watch_open, since_notif, notif_gap,
                   notif_pending, prev_sent>>
    /\ UNCHANGED dataVars
    /\ UNCHANGED nutVars

\* a client loop that goes on waiting when changed() yields Err
EndpointClosed_Continue(e) ==
    /\ ep_pc[e] = "select"
    /\ ~ep_changed[e]
    /\ merger_pc = "returned"
    /\ ~watch_open
    /\ UNCHANGED vars

\* client loop: changed() yields Err, the watch Sender is gone and every
\* value was seen: break
EndpointClosed(e) ==
    /\ ep_pc[e] = "select"
    /\ ~ep_changed[e]
    /\ merger_pc = "returned"
    /\ ~watch_open
    /\ ep_pc' = [ep_pc EXCEPT ![e] = "returned"]
    /\ UNCHANGED <<ep_changed, last_sent, since_ok, ep_result, ep_busy, ep_body>>
    /\ UNCHANGED <<shutdown, cfgVars, fn_ret, rocket_pc, watch_open, since_notif, notif_gap,
                   notif_pending, prev_sent>>
    /\ UNCHANGED dataVars
    /\ UNCHANGED nutVars

\* a join that only awaits the merger task
ActiveTasksReturned_MergerOnly == merger_pc = "returned"

\* for task in tasks { task.await.unwrap(); }: the tasks are the client loop
\* of every endpoint and the data merger task
ActiveTasksReturned ==
    /\ merger_pc = "returned"
    /\ \A e \in endpoints : ep_pc[e] = "returned"

\* start_active_sender_loop returns
ActiveJoin ==
    /\ enabled["active_sender"]
    /\ "active_sender" \notin fn_ret
    /\ ActiveTasksReturned
    /\ Returns("active_sender")
    /\ UNCHANGED <<shutdown, cfgVars, rocket_pc, watch_open, epVars, since_notif, notif_gap,
                   notif_pending, prev_sent>>
    /\ UNCHANGED dataVars
    /\ UNCHANGED nutVars

\* task.await.unwrap() on a task that panicked: the tasks are awaited in the
\* order they were pushed, the endpoints first and the merger last, and the
\* JoinError of the first panicked one makes start_active_sender_loop panic
ActiveJoinPanics ==
    /\ enabled["active_sender"]
    /\ LoopReceiverAlive
    /\ \/ \E e \in endpoints :
            /\ ep_pc[e] = "panicked"
            /\ \A o \in endpoints : o < e => ep_pc[o] = "returned"
       \/ /\ \A e \in endpoints : ep_pc[e] = "returned"
          /\ merger_pc = "panicked"
    /\ Returns(ActiveSenderPanicked)
    /\ UNCHANGED <<shutdown, cfgVars, rocket_pc, watch_open, epVars, since_notif, notif_gap,
                   notif_pending, prev_sent>>
    /\ UNCHANGED dataVars
    /\ UNCHANGED nutVars

\* start_cache_updater_loop: _ = shutdown_rx.recv() => break
CacheShutdown ==
    /\ upd_pc = "select"
    /\ shutdown
    /\ upd_pc' = "returned"
    /\ upd_off' = {}
    /\ DropReceivers("cache")
    /\ UNCHANGED <<enabled, ow_pc, ow_dropped, merger_pc, merger_off, data_to_send, watch,
                   cache, wlock, upd_family, upd_value, upd_i, committed>>
    /\ NoResponsePending
    /\ UNCHANGED rd
    /\ UNCHANGED nutVars
    /\ UNCHANGED lifeVars

\* the rocket task: select! { _ = prepared_rocket => {}, _ = shutdown_rx_clone.recv()
\* => {} }: launch() gives up by itself, or the shutdown message aborts it
RocketReturn ==
    /\ rocket_pc = "running"
    /\ \E launch_failed \in BOOLEAN : launch_failed \/ shutdown
    /\ rocket_pc' = "returned"
    /\ UNCHANGED <<shutdown, cfgVars, fn_ret, watch_open, epVars, since_notif, notif_gap,
                   notif_pending, prev_sent>>
    /\ UNCHANGED dataVars
    /\ UNCHANGED nutVars

\* tokio::try_join!(rocket_handle, cache_updater_handle): no task panics, so
\* both handles are awaited
PassiveTasksReturned == rocket_pc = "returned" /\ upd_pc = "returned"

\* start_passive_endpoint_loop returns
PassiveJoin ==
    /\ enabled["passive_endpoint"]
    /\ "passive_endpoint" \notin fn_ret
    /\ PassiveTasksReturned
    /\ Returns("passive_endpoint")
    /\ UNCHANGED <<shutdown, cfgVars, rocket_pc, watch_open, epVars, since_notif, notif_gap,
                   notif_pending, prev_sent>>
    /\ UNCHANGED dataVars
    /\ UNCHANGED nutVars

\* ------------------------------------------------------------------------
\* Specifications
\* ------------------------------------------------------------------------
\* the two sources share nothing, and the two consumers share nothing but
\* the channels they each hold a receiver of: the configurations with at
\* most one source and at most one consumer enabled are explored
ModuleConfigs ==
    {e \in [Modules -> BOOLEAN] :
        /\ ~(e["one_wire"] /\ e["ups_monitoring"])
        /\ ~(e["active_sender"] /\ e["passive_endpoint"])}

\* the data plane as the process starts it: every start function holds a
\* receiver of both family channels
DataStart ==
    /\ ow_pc = "start"
    /\ ow_dropped = FALSE
    /\ receivers = [f \in Families |-> Consumers]
    /\ chan = [f \in Families |-> [c \in Consumers |-> <<>>]]
    /\ lagged = [f \in Families |-> [c \in Consumers |-> FALSE]]
    /\ merger_pc = "start"
    /\ merger_off = {}
    /\ data_to_send = DataToSendEmpty
    /\ watch = DataToSendEmpty
    /\ cache = CachedDataDefault
    /\ wlock = {}
    /\ upd_pc = "start"
    /\ upd_off = {}
    /\ upd_family = "temperature"
    /\ upd_value = <<>>
    /\ upd_i = 0
    /\ committed = [f \in Families |-> <<>>]
    /\ rd = NoRead

DataInit == enabled \in ModuleConfigs /\ DataStart

\* before any start function has run, with the given active-sender and
\* server configuration
LifeCore(eps, cooldowns, srv, obs, rec, builds) ==
    /\ shutdown = FALSE
    /\ servers = srv
    /\ endpoints = eps
    /\ observed = obs
    /\ recorded = rec
    /\ \E b \in builds : ignore_errors = b.ignore /\ debug_build = b.debug
    /\ ep_result = [e \in Endpoints |-> NoResult]
    /\ cooldown_cfg \in cooldowns
    /\ fn_ret = {}
    /\ rocket_pc = "off"
    /\ watch_open = FALSE
    /\ ep_pc = [e \in Endpoints |-> "off"]
    /\ ep_changed = [e \in Endpoints |-> FALSE]
    /\ last_sent = [e \in Endpoints |-> None]
    /\ since_ok = [e \in Endpoints |-> None]
    /\ ep_busy = [e \in Endpoints |-> 0]
    /\ ep_body = [e \in Endpoints |-> None]
    /\ since_notif = MaxElapsed
    /\ notif_gap = MaxElapsed
    /\ notif_pending = [e \in Endpoints |-> 0]
    /\ prev_sent = [e \in Endpoints |-> FALSE]
    /\ fs = {}
    /\ scan = NoScan

\* the same without a blocking main loop
LifeInit(eps, cooldowns, srv, obs, rec, builds) ==
    /\ LifeCore(eps, cooldowns, srv, obs, rec, builds)
    /\ BlockingInit({}, 1)

\* a release build that logs connection errors (the setting's default)
ReleaseBuild == {[ignore |-> FALSE, debug |-> FALSE]}

\* either build, either setting
Builds == [ignore : BOOLEAN, debug : BOOLEAN]

\* no endpoint configured, one server
LifeOff == LifeInit({}, {0}, {1}, {}, {}, ReleaseBuild)

\* only ups_monitoring enabled, the data plane's other modules returned
DataOff ==
    /\ enabled = [m \in Modules |-> m = "ups_monitoring"]
    /\ ow_pc = "returned"
    /\ ow_dropped = FALSE
    /\ receivers = [f \in Families |-> {}]
    /\ chan = [f \in Families |-> [c \in Consumers |-> <<>>]]
    /\ lagged = [f \in Families |-> [c \in Consumers |-> FALSE]]
    /\ merger_pc = "returned"
    /\ merger_off = {}
    /\ data_to_send = DataToSendEmpty
    /\ watch = DataToSendEmpty
    /\ cache = CachedDataDefault
    /\ wlock = {}
    /\ upd_pc = "returned"
    /\ upd_off = {}
    /\ upd_family = "temperature"
    /\ upd_value = <<>>
    /\ upd_i = 0
    /\ committed = [f \in Families |-> <<>>]
    /\ rd = NoRead

\* NetworkUpsToolsClient::new, with the given tasks running the client loop
\* a client without a session whose counter stands at one of the given
\* values; a counter above 0 is the trace of connects that failed in a row, of
\* which consec_fail keeps the most recent one
NutInitFrom(running, configs, attempts) ==
    /\ upses \in {get_upses(c, ServerId) : c \in configs}
    /\ connection = None
    /\ conn_lock = 0
    /\ failed_attempts \in attempts
    /\ fa_wlock = FALSE
    /\ pc = [t \in Callers |-> IF t \in running THEN "start" ELSE "off"]
    /\ loc = [t \in Callers |-> NoLocals]
    /\ sleep_left = [t \in Callers |-> 0]
    /\ stable \in BOOLEAN
    /\ since_fail = MaxSleep
    /\ since_connect = Cooldown
    /\ consec_fail = (IF failed_attempts = U32Zero THEN 0 ELSE 1)
    /\ dead = {}
    /\ calls = [t \in Callers |-> NoCalls]

\* NetworkUpsToolsClient::new: no session, failed_attempts 0
NutInit(running, configs) == NutInitFrom(running, configs, {U32Zero})

\* the server the data plane is explored with: one UPS, one variable
DataUpsConfig == <<[name |-> "ups1", variables_to_monitor |-> Some(<<"battery.charge">>)]>>

InitData == DataInit /\ NutInit({1}, {DataUpsConfig}) /\ stable /\ LifeOff

NextData ==
    \/ OneWireStart
    \/ OneWireCycle
    \/ OneWireWake
    \/ MergerStart
    \/ \E t \in Callers : NutStart(t)
    \/ \E t \in Callers : NutBatch(t)
    \/ \E t \in Callers : CooldownOver(t)
    \/ \E f \in Families : MergerRecv(f)
    \/ \E f \in Families : MergerLagged(f)
    \/ PassiveStart
    \/ \E f \in Families : CacheRecv(f)
    \/ \E f \in Families : CacheLagged(f)
    \/ SetWriteVec
    \/ SetLockMap
    \/ SetClearMap
    \/ SetInsert
    \/ SetReturn
    \/ \E f \in Families : ReadAll(f)
    \/ \E f \in Families : \E id \in LookupIds(f) : ReadById(f, id)
    \/ ReadDone

SpecData == InitData /\ [][NextData]_vars

\* both sources feeding the merger, the passive endpoint disabled
InitMerger ==
    /\ enabled = [m \in Modules |-> m # "passive_endpoint"]
    /\ DataStart
    /\ NutInit({1}, {DataUpsConfig})
    /\ stable
    /\ LifeOff

NextMerger ==
    \/ OneWireStart
    \/ OneWireCycle
    \/ OneWireWake
    \/ \E t \in Callers : NutStart(t)
    \/ \E t \in Callers : NutBatch(t)
    \/ \E t \in Callers : CooldownOver(t)
    \/ MergerStart
    \/ \E f \in Families : MergerRecv(f)
    \/ \E f \in Families : MergerLagged(f)
    \/ PassiveStart

SpecMerger == InitMerger /\ [][NextMerger]_vars

\* one server feeding the Merger and the client loop of one endpoint
InitSender ==
    /\ enabled = [m \in Modules |-> m \in {"ups_monitoring", "active_sender"}]
    /\ DataStart
    /\ NutInit({1}, {DataUpsConfig})
    /\ stable
    /\ LifeInit({1}, CooldownConfigs, {1}, {1}, {}, ReleaseBuild)

NextSender ==
    \/ OneWireStart
    \/ PassiveStart
    \/ \E t \in Callers : NutStart(t)
    \/ \E t \in Callers : NutBatch(t)
    \/ \E t \in Callers : CooldownOver(t)
    \/ MergerStart
    \/ \E f \in Families : MergerRecv(f)
    \/ \E f \in Families : MergerLagged(f)
    \/ \E e \in Endpoints : EndpointSkip(e)
    \/ \E e \in Endpoints : EndpointSendStart(e)
    \/ \E e \in Endpoints : EndpointSendDone(e)
    \/ EndpointTick

SpecSender == InitSender /\ [][NextSender]_vars

\* the server configurations the life cycle is explored with: one that
\* names no UPS, so that every batch is empty, and one with a UPS
LifeUpsConfigs == {<<>>, DataUpsConfig}

\* the configurations the life cycle is explored with: nothing enabled, or
\* the monitoring of two servers with one of the two consumers
LifeConfigs ==
    {[m \in Modules |-> m \in on] :
        on \in {{}, {"ups_monitoring", "active_sender"}, {"ups_monitoring", "passive_endpoint"}}}

\* two servers, two endpoints, the shutdown notifier waiting for ctrl-c
InitLife ==
    /\ enabled \in LifeConfigs
    /\ DataStart
    /\ NutInit({1}, LifeUpsConfigs)
    /\ (upses # <<>>) = enabled["passive_endpoint"]
    /\ stable
    /\ LifeInit(Endpoints, {0}, {1, 2}, {}, {}, ReleaseBuild)

NextLife ==
    \/ OneWireStart
    \/ \E t \in Callers : NutStart(t)
    \/ \E t \in Callers : NutBatch(t)
    \/ \E t \in Callers : CooldownOver(t)
    \/ \E t \in Callers : NutLoopShutdown(t)
    \/ \E t \in Callers : NutSpawnNext(t)
    \/ MonitoringJoin
    \/ MergerStart
    \/ \E f \in Families : MergerRecv(f)
    \/ \E f \in Families : MergerLagged(f)
    \/ MergerShutdown
    \/ \E e \in Endpoints : EndpointSkip(e)
    \/ \E e \in Endpoints : EndpointSendStart(e)
    \/ \E e \in Endpoints : EndpointSendDone(e)
    \/ \E e \in Endpoints : EndpointShutdown(e)
    \/ \E e \in Endpoints : EndpointClosed(e)
    \/ EndpointTick
    \/ ActiveJoin
    \/ PassiveStart
    \/ \E f \in Families : CacheRecv(f)
    \/ \E f \in Families : CacheLagged(f)
    \/ SetWriteVec
    \/ SetLockMap
    \/ SetClearMap
    \/ SetInsert
    \/ SetReturn
    \/ CacheShutdown
    \/ RocketReturn
    \/ PassiveJoin
    \/ ShutdownFire

SpecLife == InitLife /\ [][NextLife]_vars

\* the server id of each configured server: the example server and one
\* without a user name on its own port
ServerIds(t) == IF t = 1 THEN ServerId ELSE get_server_id(None, "nas", Some(3494))

\* the UPSes of each configured server: a UPS of the same name on each
ServerUpses(t) == get_upses(DataUpsConfig, ServerIds(t))

\* one iteration of the client loop of server t seen from the channel:
\* query_all_upses of its own client returns a batch of its own UPSes
NutServerBatch(t) ==
    /\ pc[t] = "call"
    /\ \E b \in BatchesOf(ServerUpses(t)) :
         IF receiver_count("ups") > 0
         THEN Send("ups", b)
         ELSE UNCHANGED <<chan, lagged>>
    /\ pc' = [pc EXCEPT ![t] = "cooldown"]
    /\ UNCHANGED <<upses, connection, conn_lock, failed_attempts, fa_wlock, loc, sleep_left,
                   stable, since_fail, since_connect, consec_fail, dead, calls>>
    /\ UNCHANGED <<enabled, ow_pc, ow_dropped, receivers, merger_pc, merger_off,
                   data_to_send, watch, cache, wlock, upd_pc, upd_off, upd_family,
                   upd_value, upd_i, committed>>
    /\ NoResponsePending
    /\ UNCHANGED rd
    /\ UNCHANGED lifeVars

\* the active sender with no endpoint or with one, in a release or a debug
\* build, and one server publishing
InitJoin ==
    /\ enabled = [m \in Modules |-> m \in {"ups_monitoring", "active_sender"}]
    /\ DataStart
    /\ NutInit({1}, {DataUpsConfig})
    /\ stable
    /\ \E eps \in {{}, {1}} : LifeInit(eps, {0}, {1}, {}, {}, Builds)

NextJoin ==
    \/ OneWireStart
    \/ PassiveStart
    \/ \E t \in Callers : NutStart(t)
    \/ \E t \in Callers : NutBatch(t)
    \/ \E t \in Callers : CooldownOver(t)
    \/ \E t \in Callers : NutLoopShutdown(t)
    \/ MonitoringJoin
    \/ MergerStart
    \/ \E f \in Families : MergerRecv(f)
    \/ \E f \in Families : MergerLagged(f)
    \/ MergerShutdown
    \/ \E e \in Endpoints : EndpointSkip(e)
    \/ \E e \in Endpoints : EndpointSendStart(e)
    \/ \E e \in Endpoints : EndpointSendDone(e)
    \/ \E e \in Endpoints : EndpointShutdown(e)
    \/ \E e \in Endpoints : EndpointClosed(e)
    \/ EndpointTick
    \/ ActiveJoin
    \/ ActiveJoinPanics
    \/ ShutdownFire

SpecJoin == InitJoin /\ [][NextJoin]_vars

\* the active sender with two endpoints whose loops never take the shutdown
\* branch of their select!, a release build, one server without a UPS
\* publishing its empty batches
InitClosed ==
    /\ enabled = [m \in Modules |-> m \in {"ups_monitoring", "active_sender"}]
    /\ DataStart
    /\ NutInit({1}, {<<>>})
    /\ stable
    /\ LifeInit(Endpoints, {0}, {1}, {}, {}, ReleaseBuild)

NextClosed ==
    \/ OneWireStart
    \/ PassiveStart
    \/ \E t \in Callers : NutStart(t)
    \/ \E t \in Callers : NutBatch(t)
    \/ \E t \in Callers : CooldownOver(t)
    \/ \E t \in Callers : NutLoopShutdown(t)
    \/ MergerStart
    \/ \E f \in Families : MergerRecv(f)
    \/ \E f \in Families : MergerLagged(f)
    \/ MergerShutdown
    \/ \E e \in Endpoints : EndpointSkip(e)
    \/ \E e \in Endpoints : EndpointSendStart(e)
    \/ \E e \in Endpoints : EndpointSendDone(e)
    \/ \E e \in Endpoints : EndpointClosed(e)
    \/ EndpointTick
    \/ ActiveJoin
    \/ ShutdownFire

\* the runtime polls an endpoint task that can run: a change is handled, a
\* request ends (by the timeout at the latest), a closed channel is noticed
FairClosed ==
    \A e \in Endpoints :
        /\ WF_vars(EndpointSkip(e))
        /\ WF_vars(EndpointSendStart(e))
        /\ WF_vars(EndpointSendDone(e))
        /\ WF_vars(EndpointClosed(e))

SpecClosedFair == InitClosed /\ [][NextClosed]_vars /\ FairClosed

\* two servers with a UPS each, both consumers, no endpoint
InitServers ==
    /\ enabled = [m \in Modules |-> m # "one_wire"]
    /\ DataStart
    /\ NutInit({1}, {DataUpsConfig})
    /\ stable
    /\ LifeInit({}, {0}, {1, 2}, {}, {}, ReleaseBuild)

\* the loops and the two consumers; the joins of the start functions and the
\* web server are left out
NextServers ==
    \/ \E t \in Callers : NutStart(t)
    \/ \E t \in Callers : NutServerBatch(t)
    \/ \E t \in Callers : CooldownOver(t)
    \/ \E t \in Callers : NutLoopShutdown(t)
    \/ \E t \in Callers : NutSpawnNext(t)
    \/ MergerStart
    \/ \E f \in Families : MergerRecv(f)
    \/ \E f \in Families : MergerLagged(f)
    \/ MergerShutdown
    \/ PassiveStart
    \/ \E f \in Families : CacheRecv(f)
    \/ \E f \in Families : CacheLagged(f)
    \/ SetWriteVec
    \/ SetLockMap
    \/ SetClearMap
    \/ SetInsert
    \/ SetReturn
    \/ CacheShutdown
    \/ ShutdownFire

SpecServers == InitServers /\ [][NextServers]_vars

\* one client, queried by its one client loop
InitNut == DataOff /\ NutInit({1}, UpsConfigs) /\ LifeOff

NextNut ==
    \/ \E t \in Callers : NutStart(t)
    \/ \E t \in Callers : NutCall(t)
    \/ \E t \in Callers : IsConnectedTake(t)
    \/ \E t \in Callers : IsConnectedVersion(t)
    \/ \E t \in Callers : ReadFailedAttempts(t)
    \/ \E t \in Callers : BackoffOver(t)
    \/ \E t \in Callers : ConnectLock(t)
    \/ \E t \in Callers : ConnectCount(t)
    \/ \E t \in Callers : ConnectFailed(t)
    \/ \E t \in Callers : ConnectOk(t)
    \/ \E t \in Callers : QueryAllBegin(t)
    \/ \E t \in Callers : QueryVariablesTake(t)
    \/ \E t \in Callers : QueryGetVar(t)
    \/ \E t \in Callers : QueryVariablesReturn(t)
    \/ \E t \in Callers : QueryAllReturn(t)
    \/ \E t \in Callers : NutPublish(t)
    \/ \E t \in Callers : CooldownOver(t)
    \/ Tick
    \/ ServerUp
    \/ ServerDown

SpecNut == InitNut /\ [][NextNut]_vars

\* the values failed_attempts is explored from: a new client's 0, the value
\* whose low half is about to carry, and the value next to u32::MAX
CounterStarts ==
    {U32Zero, [hi |-> 0, lo |-> Half - 2], [hi |-> Half - 1, lo |-> Half - 2]}

\* one client, queried by its one client loop, after any number of failed
\* connects
InitFailedAttempts == DataOff /\ NutInitFrom({1}, UpsConfigs, CounterStarts) /\ LifeOff

SpecFailedAttempts == InitFailedAttempts /\ [][NextNut]_vars

\* the steps of one caller
CallerStep(t) ==
    \/ NutStart(t)
    \/ NutCall(t)
    \/ IsConnectedTake(t)
    \/ IsConnectedVersion(t)
    \/ ReadFailedAttempts(t)
    \/ BackoffOver(t)
    \/ ConnectLock(t)
    \/ ConnectCount(t)
    \/ ConnectFailed(t)
    \/ ConnectOk(t)
    \/ QueryAllBegin(t)
    \/ QueryVariablesTake(t)
    \/ QueryGetVar(t)
    \/ QueryVariablesReturn(t)
    \/ QueryAllReturn(t)
    \/ NutPublish(t)
    \/ CooldownOver(t)

\* the runtime polls a task that can run, the timers advance, and a request
\* to the server is answered; the server's availability is not constrained
FairNut == WF_vars(Tick) /\ \A t \in Callers : WF_vars(CallerStep(t))

SpecNutFair == InitNut /\ [][NextNut]_vars /\ FairNut

\* the client loop of one server and the shutdown notifier
NextNutShutdown ==
    \/ NextNut
    \/ ShutdownFire
    \/ \E t \in Callers : NutLoopShutdown(t)

\* as FairNut; and a loop that keeps reaching its select! with the shutdown
\* message pending takes the shutdown branch at last
FairNutShutdown == FairNut /\ \A t \in Callers : SF_vars(NutLoopShutdown(t))

SpecNutShutdownFair == InitNut /\ [][NextNutShutdown]_vars /\ FairNutShutdown

\* the steps of the client loop of a server, seen from the channel
ServerStep(t) ==
    \/ NutStart(t)
    \/ NutBatch(t)
    \/ CooldownOver(t)
    \/ NutSpawnNext(t)

\* the runtime polls every task that can run, a query is answered, the
\* sleeps end, and a select! reached again and again with the shutdown
\* message pending takes the shutdown branch at last
FairLife ==
    /\ \A t \in Callers : WF_vars(ServerStep(t)) /\ SF_vars(NutLoopShutdown(t))
    /\ WF_vars(MonitoringJoin)

SpecLifeFair == InitLife /\ [][NextLife]_vars /\ FairLife

\* a server loop publishing to the Merger while the consumers come and go:
\* the passive endpoint disabled, the active sender enabled or not, no endpoint
InitPublish ==
    /\ enabled \in {[m \in Modules |-> m \in on] :
                        on \in {{"ups_monitoring"}, {"ups_monitoring", "active_sender"}}}
    /\ DataStart
    /\ NutInit({1}, {DataUpsConfig})
    /\ stable
    /\ LifeOff

\* the publication in its two steps, the consumers, the shutdown
NextPublish ==
    \/ OneWireStart
    \/ PassiveStart
    \/ MergerStart
    \/ \E f \in Families : MergerRecv(f)
    \/ \E f \in Families : MergerLagged(f)
    \/ MergerShutdown
    \/ ActiveJoin
    \/ \E t \in Callers : NutStart(t)
    \/ \E t \in Callers : NutQueried(t)
    \/ \E t \in Callers : PublishCheck(t)
    \/ \E t \in Callers : PublishSend(t)
    \/ \E t \in Callers : CooldownOver(t)
    \/ \E t \in Callers : NutLoopShutdown(t)
    \/ MonitoringJoin
    \/ ShutdownFire

SpecPublish == InitPublish /\ [][NextPublish]_vars

\* both pollers and the passive endpoint enabled, the active sender disabled
InitEndToEnd ==
    /\ enabled = [m \in Modules |-> m # "active_sender"]
    /\ DataStart
    /\ NutInit({1}, {DataUpsConfig})
    /\ stable
    /\ LifeOff

\* one poll cycle of each poller, up to its sleep, and the cache updater
NextEndToEnd ==
    \/ OneWireStart
    \/ OneWireCycle
    \/ \E t \in Callers : NutStart(t)
    \/ \E t \in Callers : NutBatch(t)
    \/ MergerStart
    \/ PassiveStart
    \/ \E f \in Families : CacheRecv(f)
    \/ SetWriteVec
    \/ SetLockMap
    \/ SetClearMap
    \/ SetInsert
    \/ SetReturn

\* the cache updater is a spawned task of the runtime, which polls a ready
\* task again and again; a recv() branch that stays ready is taken by select!
FairEndToEnd ==
    /\ WF_vars(PassiveStart)
    /\ \A f \in Families : SF_vars(CacheRecv(f))
    /\ WF_vars(SetWriteVec)
    /\ WF_vars(SetLockMap)
    /\ WF_vars(SetClearMap)
    /\ WF_vars(SetInsert)
    /\ WF_vars(SetReturn)

SpecEndToEnd == InitEndToEnd /\ [][NextEndToEnd]_vars /\ FairEndToEnd

\* one endpoint whose successful sends are remembered
InitOutcome ==
    /\ enabled = [m \in Modules |-> m \in {"ups_monitoring", "active_sender"}]
    /\ DataStart
    /\ NutInit({1}, {DataUpsConfig})
    /\ stable
    /\ LifeInit({1}, {0}, {1}, {}, {1}, Builds)

SpecOutcome == InitOutcome /\ [][NextSender]_vars

\* one server loop publishing to the Merger; the temperature poller is
\* disabled, so its channel never yields a value
InitLag ==
    /\ enabled = [m \in Modules |-> m \in {"ups_monitoring", "active_sender"}]
    /\ DataStart
    /\ NutInit({1}, {DataUpsConfig})
    /\ stable
    /\ LifeOff

NextLag ==
    \/ OneWireStart
    \/ PassiveStart
    \/ \E t \in Callers : NutStart(t)
    \/ \E t \in Callers : NutBatch(t)
    \/ \E t \in Callers : CooldownOver(t)
    \/ MergerStart
    \/ \E f \in Families : MergerRecv(f)
    \/ \E f \in Families : MergerLagged(f)

\* every task is polled again and again by the runtime, the poller's sleep
\* ends, and a branch of select! that is ready is eventually taken
FairLag ==
    /\ WF_vars(OneWireStart)
    /\ WF_vars(PassiveStart)
    /\ WF_vars(MergerStart)
    /\ \A t \in Callers : WF_vars(NutStart(t)) /\ WF_vars(NutBatch(t)) /\ WF_vars(CooldownOver(t))
    /\ \A f \in Families : SF_vars(MergerRecv(f)) /\ SF_vars(MergerLagged(f))

SpecLagFair == InitLag /\ [][NextLag]_vars /\ FairLag

\* the temperature poller alone, nobody subscribed to its channel, on an empty
\* base_path that devices are attached to and removed from
InitScan ==
    /\ enabled = [m \in Modules |-> m = "one_wire"]
    /\ DataStart
    /\ NutInit({}, {DataUpsConfig})
    /\ stable
    /\ LifeOff

NextScan ==
    \/ OneWireStart
    \/ FsChange
    \/ OneWireScan
    \/ TemperatureCheck
    \/ TemperatureRead
    \/ ResolutionCheck
    \/ ResolutionRead
    \/ OneWireFilterSend
    \/ OneWireWake

SpecScan == InitScan /\ [][NextScan]_vars

\* everything of the asynchronous program off
AsyncOff ==
    /\ enabled = [m \in Modules |-> FALSE]
    /\ DataStart
    /\ NutInit({}, {DataUpsConfig})
    /\ stable
    /\ LifeCore({}, {0}, {1}, {}, {}, ReleaseBuild)

\* one blocking client in the hands of a caller that keeps it; ups_i stays
\* past the list, the main loop does not run
InitBlockingClient == AsyncOff /\ BlockingInit({1}, Len(BlockingUpses) + 2)

NextBlockingClient ==
    \/ ClientTake
    \/ MainGive

SpecBlockingClient == InitBlockingClient /\ [][NextBlockingClient]_vars

\* the UPS part of the blocking main loop, a client for each server
InitBlockingMain == AsyncOff /\ BlockingInit(BlockingServers, 1)

NextBlockingMain ==
    \/ MainTake
    \/ MainGive
    \/ MainIterationEnd

SpecBlockingMain == InitBlockingMain /\ [][NextBlockingMain]_vars

\* one client, queried by two tasks at once
InitNutConcurrent == DataOff /\ NutInit(Callers, UpsConfigs) /\ LifeOff

SpecNutConcurrent == InitNutConcurrent /\ [][NextNut]_vars

\* ------------------------------------------------------------------------
\* Properties of the PassiveCache (SpecData)
\* ------------------------------------------------------------------------
\* the positions at which an item of the given id stands in a collection
Positions(items, id) == {i \in 1..Len(items) : items[i].meta.hw.id = id}

\* the item of a collection with the given id: ids are unique within a family
ItemById(items, id) ==
    IF Positions(items, id) = {} THEN None
    ELSE Some(items[CHOOSE i \in Positions(items, id) : TRUE])

\* the id-keyed view of a collection
ById(items) ==
    [id \in {items[i].meta.hw.id : i \in 1..Len(items)} |->
        items[CHOOSE i \in Positions(items, id) : TRUE]]

\* ids a lookup is judged on
ProbeIds == {DevA, DevB, DevShort, "[ups1]ups-monitor@localhost:3493", "fake_hw_id"}

\* what a read answers on a cache holding exactly the given collection
Answer(op, items, id) == IF op = "get_all" THEN items ELSE ItemById(items, id)

\* C1: whenever both locks of a family are free, so that a reader can look
\* at both views, the mapping holds exactly the items of the sequence keyed
\* by id.
C1_ViewsConsistent ==
    \A f \in Families :
        (CanReadLock(VecField(f)) /\ CanReadLock(MapField(f)))
            => cache[MapField(f)] = ById(cache[VecField(f)])

\* C2: every single read answers what the family's state before the set in
\* progress, or the state after it, answers; a get_by_id never sees the map
\* cleared or partly repopulated.
C2_ReadOldOrNew ==
    rd.op # "none" =>
        \/ rd.result = Answer(rd.op, rd.before, rd.id)
        \/ rd.result = Answer(rd.op, rd.after, rd.id)

\* a get_by_id answered from the old mapping while a set that changes the
\* answer has already replaced the sequence
C2_Witness ==
    /\ rd.op = "get_by_id"
    /\ SetInProgress(rd.family)
    /\ upd_pc = "set_lock"
    /\ IsSome(rd.result)
    /\ Answer("get_by_id", rd.after, rd.id) = None

\* C3: with no set in progress, get_all returns the argument of the last
\* completed set in its order (the empty sequence before any set), and
\* get_by_id returns its item of that id, None for every other id.
C3_SetThenGet ==
    \A f \in Families :
        ~SetInProgress(f) =>
            /\ get_all(f) = committed[f]
            /\ \A id \in ProbeIds : get_by_hw_id(f, id) = ItemById(committed[f], id)

\* two sensors were set, in the order DevB, DevA, and a lookup is answered
C3_Witness ==
    /\ upd_pc = "select"
    /\ Len(committed["temperature"]) = 2
    /\ committed["temperature"][1].meta.hw.id = DevB
    /\ rd.op = "get_by_id"
    /\ rd.family = "temperature"
    /\ rd.id = DevA
    /\ IsSome(rd.result)

\* ------------------------------------------------------------------------
\* Properties of the temperature poller (SpecData)
\* ------------------------------------------------------------------------
\* every MeasuredTemperature in flight or at rest downstream of the poller
DownstreamSensors ==
    UNION { UNION {SeqToSet(chan["temperature"][c][i]) : i \in 1..Len(chan["temperature"][c])}
            : c \in Consumers }
    \cup SeqToSet(cache.temperature_sensors)
    \cup {cache.temperature_sensors_by_hw_id[id] : id \in DOMAIN cache.temperature_sensors_by_hw_id}
    \cup SeqToSet(data_to_send.sensors)
    \cup SeqToSet(watch.sensors)
    \cup (IF upd_family = "temperature" THEN SeqToSet(upd_value) ELSE {})

\* C10: every item the temperature poller published, wherever it is now
\* (a channel, the Merger snapshot, the PassiveCache), has a temperature.
C10_PublishedHaveTemperature ==
    \A sensor \in DownstreamSensors : IsSome(sensor.temperature)

\* a cycle that filtered a reading out, with sensors held by the cache
C10_Witness ==
    /\ ow_dropped
    /\ cache.temperature_sensors # <<>>
    /\ DOMAIN cache.temperature_sensors_by_hw_id # {}

\* ------------------------------------------------------------------------
\* Properties of the NUT connection manager (SpecNut, SpecNutConcurrent)
\* ------------------------------------------------------------------------
\* positions of a task inside connect()
InConnect == {"c_lock", "c_falock", "c_new"}

\* positions of a task inside connect_if_not_connected
InConnectIfNotConnected ==
    {"ic_lock", "ic_version", "read_fa", "sleep", "c_lock", "c_falock", "c_new"}

\* positions of a task inside query_all_upses
InQueryAll == InConnectIfNotConnected \cup {"qa_begin", "qv_lock", "qv_get"}

\* C4: a connect attempt that follows N >= 1 consecutive failed ones is not
\* started before min(cooldown_base * N, 1 hour) has passed since the N-th
\* failure, and after a successful connect the failure counter is 0.
C4_BackoffBeforeConnect ==
    /\ \A t \in Callers :
         (pc[t] \in InConnect /\ consec_fail >= 1)
             => since_fail >= Min(Cooldown * consec_fail, MaxSleep)
    /\ (consec_fail = 0 /\ ~fa_wlock) => failed_attempts = U32Zero

\* the attempt after the third failure in a row is started, a full hour
\* (less than three cooldowns) after that failure
C4_Witness ==
    /\ pc[1] = "c_new"
    /\ consec_fail = 3
    /\ Cooldown * consec_fail > MaxSleep
    /\ since_fail = MaxSleep

\* the connection state of the client
ConnectionState ==
    IF \E t \in Callers : pc[t] \in {"c_falock", "c_new"} THEN "Connecting"
    ELSE IF IsSome(connection) \/ \E t \in Callers : IsSome(loc[t].conn) THEN "Connected"
    ELSE "Disconnected"

\* the session of the client, stored or taken out by a task
CurrentSession ==
    IF IsSome(connection) THEN connection
    ELSE IF \E t \in Callers : IsSome(loc[t].conn)
         THEN loc[CHOOSE t \in Callers : IsSome(loc[t].conn)].conn
         ELSE None

ConnectionTransitions ==
    {<<"Disconnected", "Connecting">>, <<"Connecting", "Connected">>,
     <<"Connecting", "Disconnected">>, <<"Connected", "Disconnected">>}

\* C5: the client starts Disconnected; its state moves only Disconnected ->
\* Connecting -> Connected, Connected -> Disconnected (a failed liveness
\* check) and Connecting -> Disconnected (a failed connect, which raises the
\* failure counter); a session is stored only by a successful connect, a
\* successful liveness check keeps it, and a session whose liveness check
\* failed is never the client's session again.
C5_ConnectionStateMachine ==
    /\ ConnectionState = "Disconnected"
    /\ [](CurrentSession = None \/ Unwrap(CurrentSession) \notin dead)
    /\ [][/\ ConnectionState' # ConnectionState
             => <<ConnectionState, ConnectionState'>> \in ConnectionTransitions
          /\ (ConnectionState = "Connected" /\ ConnectionState' = "Disconnected")
             => \E t \in Callers : /\ pc[t] = "ic_version"
                                   /\ dead' = dead \cup {Unwrap(loc[t].conn)}
          /\ (ConnectionState = "Connecting" /\ ConnectionState' = "Disconnected")
             => consec_fail' = consec_fail + 1 /\ failed_attempts' # U32Zero
          /\ (CurrentSession' # CurrentSession /\ CurrentSession' # None)
             => ConnectionState = "Connecting" /\ failed_attempts' = U32Zero
          /\ \A t \in Callers :
               (pc[t] = "ic_version" /\ pc'[t] = "qa_begin")
                   => connection' = loc[t].conn /\ IsSome(connection')
         ]_vars

\* a session died at a liveness check and another one is stored since
C5_Witness ==
    /\ dead # {}
    /\ IsSome(connection)
    /\ Unwrap(connection) \notin dead
    /\ pc[1] = "qa_begin"

\* C6: at most one task holds the session at a time; a task that holds it,
\* awaits a liveness check or a get-var answer, or is inside connect past
\* the lock, owns the connection lock, and the stored slot is then empty of
\* the session it holds; a device's sweep keeps the lock throughout.
C6_SessionUnderLock ==
    /\ Cardinality({t \in Callers : IsSome(loc[t].conn)}) <= 1
    /\ \A t \in Callers :
         /\ IsSome(loc[t].conn) => conn_lock = t /\ connection = None
         /\ pc[t] \in {"ic_version", "qv_get", "c_falock", "c_new"} => conn_lock = t
         /\ pc[t] \in {"ic_version", "qv_get"} => IsSome(loc[t].conn)

\* one caller is in the middle of a sweep while the other waits for the lock
C6_Witness ==
    /\ pc[1] = "qv_get"
    /\ loc[1].v = 1
    /\ Len(upses[loc[1].u + 1].variables_to_monitor) = 2
    /\ pc[2] \in {"ic_lock", "qv_lock", "c_lock"}

\* C7: connect_if_not_connected returns only with a session stored whose
\* last liveness check succeeded; a connect is made only by a task inside
\* query_all_upses; and every reading of a returned batch was queried on a
\* stored session, so no connection error shows in the result.
C7_QueryOnLiveSession ==
    \A t \in Callers :
        /\ pc[t] = "qa_begin" =>
             /\ IsSome(connection)
             /\ Unwrap(connection) \notin dead
             /\ loc[t].is_connected
        /\ pc[t] = "publish" =>
             /\ Len(calls[t].took) = Len(upses)
             /\ \A i \in 1..Len(calls[t].took) : calls[t].took[i]
        /\ (conn_lock = t \/ pc[t] \in InConnect) => pc[t] \in InQueryAll

\* a batch is returned although the last connect before it had failed
C7_Witness ==
    /\ pc[1] = "publish"
    /\ Len(loc[1].data_from_upses) = 2
    /\ since_fail < MaxSleep
    /\ dead # {}

\* the get-var calls a batch makes: every configured attribute of every
\* configured device, in configuration order
ConfiguredCalls ==
    [i \in 1..Len(upses) |->
        [j \in 1..Len(upses[i].variables_to_monitor) |->
            [u |-> i, var |-> upses[i].variables_to_monitor[j]]]]

RECURSIVE Flatten(_)
Flatten(ss) == IF ss = <<>> THEN <<>> ELSE Head(ss) \o Flatten(Tail(ss))

\* C9: the batch query_all_upses returns has one reading per configured UPS
\* in configuration order, identified "[ups_name]server_id"; one get-var
\* call was made per configured attribute per device, whatever the earlier
\* answers were; and a reading has an entry for an attribute exactly when
\* the call for it succeeded, its value the returned one.
C9_BatchShape ==
    \A t \in Callers :
        pc[t] = "publish" =>
            LET batch == loc[t].data_from_upses
                log == calls[t].get_var
            IN /\ Len(batch) = Len(upses)
               /\ [k \in 1..Len(log) |-> [u |-> log[k].u, var |-> log[k].var]]
                      = Flatten(ConfiguredCalls)
               /\ \A i \in 1..Len(upses) :
                    /\ batch[i].meta.hw.id = "[" \o upses[i].ups_name \o "]" \o ServerId
                    /\ upses[i].ups_name = "ups1"
                           => batch[i].meta.hw.id = "[ups1]ups-monitor@localhost:3493"
                    /\ DOMAIN batch[i].variables
                           = {log[k].var : k \in {k \in 1..Len(log) :
                                                     log[k].u = i /\ IsSome(log[k].res)}}
                    /\ \A k \in 1..Len(log) :
                         (log[k].u = i /\ IsSome(log[k].res))
                             => batch[i].variables[log[k].var] = Unwrap(log[k].res)

\* a returned reading whose first attribute failed and whose second succeeded
C9_Witness ==
    /\ pc[1] = "publish"
    /\ Len(calls[1].get_var) = 2
    /\ calls[1].get_var[1].u = calls[1].get_var[2].u
    /\ calls[1].get_var[1].res = None
    /\ IsSome(calls[1].get_var[2].res)
    /\ DOMAIN loc[1].data_from_upses[1].variables = {calls[1].get_var[2].var}

\* C8: a task inside connect_if_not_connected leaves it only by a liveness
\* check that succeeded, however many connects and checks failed before;
\* and if from some point on every connect and liveness check succeeds,
\* every pending query_all_upses returns.
C8_RetryUntilConnected ==
    /\ [][\A t \in Callers :
            (pc[t] \in InConnectIfNotConnected /\ pc'[t] \notin InConnectIfNotConnected)
                => /\ pc[t] = "ic_version"
                   /\ pc'[t] = "qa_begin"
                   /\ IsSome(connection')]_vars
    /\ (<>[]stable) =>
          \A t \in Callers : (pc[t] \in InQueryAll) ~> (pc[t] = "publish")

\* a call that is still retrying after three failed connects in a row
C8_Witness ==
    /\ pc[1] = "sleep"
    /\ consec_fail = 3
    /\ sleep_left[1] > 0
    /\ ~stable

\* ------------------------------------------------------------------------
\* Properties of publication and of the Merger (SpecData, SpecMerger)
\* ------------------------------------------------------------------------
\* a receiver's backlog after one value more was sent
AfterSend(backlog, value) ==
    IF Len(backlog) < ChanCap THEN Append(backlog, value)
    ELSE Append(SubSeq(backlog, 2, Len(backlog)), value)

\* this step publishes exactly one value to the family's channel: every
\* subscriber's backlog grows by that value, only overflow marks it lagged
PublishesOnce(f) ==
    \E c0 \in receivers[f] :
        /\ chan'[f][c0] # <<>>
        /\ LET value == chan'[f][c0][Len(chan'[f][c0])]
           IN \A c \in Consumers :
                IF c \in receivers[f]
                THEN /\ chan'[f][c] = AfterSend(chan[f][c], value)
                     /\ lagged'[f][c] = (lagged[f][c] \/ Len(chan[f][c]) >= ChanCap)
                ELSE chan'[f][c] = chan[f][c] /\ lagged'[f][c] = lagged[f][c]

\* this step publishes nothing to the family's channel: no backlog gains a value
PublishesNothing(f) ==
    \A c \in Consumers :
        \/ chan'[f][c] \in {chan[f][c], <<>>}
        \/ chan[f][c] # <<>> /\ chan'[f][c] = Tail(chan[f][c])

\* the step that ends a poll cycle's work and begins its sleep
TemperatureCycle == ow_pc = "scan" /\ ow_pc' = "sleep"

UpsCycle == \E t \in Callers : pc[t] = "call" /\ pc'[t] = "cooldown"

MergerReceives(f) ==
    /\ merger_pc = "select"
    /\ merger_pc' = "select"
    /\ chan[f]["merger"] # <<>>
    /\ chan'[f]["merger"] = Tail(chan[f]["merger"])

\* C12: the snapshot the Merger publishes starts empty; receiving a
\* temperature collection makes it the snapshot's sensors and leaves the
\* supplies as they were, receiving a power-supply collection makes it the
\* supplies and leaves the sensors; nothing else changes the snapshot, and
\* the snapshot published is always the whole combined one.
C12_SnapshotLatestPerFamily ==
    /\ watch = [sensors |-> <<>>, upses |-> <<>>]
    /\ [](watch = data_to_send)
    /\ [][/\ MergerReceives("temperature") =>
                /\ watch'.sensors = Head(chan["temperature"]["merger"])
                /\ watch'.upses = watch.upses
          /\ MergerReceives("ups") =>
                /\ watch'.upses = Head(chan["ups"]["merger"])
                /\ watch'.sensors = watch.sensors
          /\ ~(MergerReceives("temperature") \/ MergerReceives("ups")) => watch' = watch
         ]_vars

\* a snapshot that combines sensors and supplies received separately
C12_Witness ==
    /\ merger_pc = "select"
    /\ watch.sensors # <<>>
    /\ watch.upses # <<>>
    /\ DOMAIN watch.upses[1].variables # {}

\* ------------------------------------------------------------------------
\* Properties of the endpoint client loops (SpecSender)
\* ------------------------------------------------------------------------
\* the step in which the loop of the endpoint takes up a change of the snapshot
Handles(e) == ep_pc[e] = "select" /\ ep_changed[e] /\ ~ep_changed'[e]

\* the step in which the loop of the endpoint starts a request
Sends(e) == ep_pc[e] = "select" /\ ep_pc'[e] = "sending"

\* the change taken up is a single notification, raised no more than the
\* given time after the one before it
SingleWithin(e, gap) ==
    e \in observed /\ Handles(e) /\ notif_pending[e] = 1 /\ notif_gap <= gap

C14_SpacedEachSent ==
    [][\A e \in Endpoints :
          /\ e \in observed
          /\ Handles(e)
          /\ notif_pending[e] = 1
          /\ notif_gap > EndpointCooldown
          /\ prev_sent[e]
          => Sends(e)]_vars

\* C15: the body of a request is the snapshot the watch channel holds when
\* the request starts; a request starts only on an unseen change and takes up
\* every update raised until then, so that several updates raised before the
\* loop handles them produce one request carrying the latest; the body of a
\* request in flight is not touched by later updates.
C15_BodyIsCurrentSnapshot ==
    [][\A e \in Endpoints :
          /\ Sends(e) =>
               /\ ep_changed[e]
               /\ ~ep_changed'[e]
               /\ watch' = watch
               /\ ep_body'[e] = Some(watch)
          /\ ep_pc[e] = "sending" /\ ep_pc'[e] = "sending" => ep_body'[e] = ep_body[e]
      ]_vars

\* the first request of an endpoint, started after two updates of the same
\* instant and carrying the second
C15_Witness ==
    /\ ep_pc[1] = "sending"
    /\ last_sent[1] = None
    /\ ~ep_changed[1]
    /\ notif_gap = 0
    /\ since_notif = 0
    /\ ep_body[1] = Some(watch)
    /\ watch.upses # <<>>
    /\ DOMAIN watch.upses[1].variables # {}

\* ------------------------------------------------------------------------
\* Properties of the life cycle (SpecLife, SpecLifeFair, SpecNutShutdownFair)
\* ------------------------------------------------------------------------
\* the state of the client loop of an endpoint
EndpointState(e) == <<ep_pc[e], ep_changed[e], last_sent[e], ep_busy[e], ep_body[e]>>

\* a step of the client loop of the endpoint
EndpointStep(e) == ep_pc'[e] # ep_pc[e] \/ Handles(e)

\* C16: every endpoint has its own loop, cooldown clock and last-sent time:
\* a publication of the Merger notifies every endpoint loop in the same
\* step, an endpoint that has an unseen snapshot and is not in its own
\* cooldown can start its request whatever the other endpoints are doing,
\* and a step of one endpoint's loop leaves the state of the others alone.
C16_EndpointIsolation ==
    [][\A e \in endpoints :
          /\ (\E f \in Families : MergerReceives(f)) /\ e \in Listening => ep_changed'[e]
          /\ ChangedReady(e) /\ ~InCooldown(e) => ENABLED EndpointSendStart(e)
          /\ \A o \in endpoints \ {e} :
                EndpointStep(e) /\ ~EndpointStep(o) =>
                    /\ ep_pc'[o] = ep_pc[o]
                    /\ ep_changed'[o] = ep_changed[o]
                    /\ last_sent'[o] = last_sent[o]
                    /\ ep_busy'[o] = ep_busy[o]
                    /\ ep_body'[o] = ep_body[o]
      ]_vars

\* endpoint 2 has just started its request for a change that endpoint 1,
\* whose request hangs at the timeout, has not yet seen
C16_Witness ==
    /\ ep_pc[1] = "sending"
    /\ ep_busy[1] = SendTimeout
    /\ ep_changed[1]
    /\ ep_pc[2] = "sending"
    /\ ep_busy[2] = 0
    /\ ~ep_changed[2]
    /\ IsSome(last_sent[2])

\* every spawned loop has returned
AllLoopsReturned ==
    /\ ow_pc \in {"start", "returned"}
    /\ merger_pc \in {"start", "returned"}
    /\ upd_pc \in {"start", "returned"}
    /\ rocket_pc \in {"off", "returned"}
    /\ \A e \in Endpoints : ep_pc[e] \in {"off", "returned"}
    /\ \A t \in Callers : pc[t] \in {"start", "off", "returned"}

\* C17: after the shutdown signal fires, every spawned loop eventually
\* returns, also a loop busy in a query or a reconnect backoff and a loop
\* whose server stays unreachable.
C17_ShutdownReturns == shutdown ~> AllLoopsReturned

\* the step in which a poller starts a new query: its sleep is over, or its
\* loop is spawned
StartsQuery(t) == pc[t] \in {"cooldown", "off"} /\ pc'[t] = "call"

\* C18: once the shutdown signal has fired, no endpoint loop starts a new
\* request and no poller starts a new query, even if a notification or a
\* timer is ready at the same time.
C18_NoWorkAfterShutdown ==
    [][shutdown =>
          /\ \A e \in Endpoints : ~Sends(e)
          /\ \A t \in Callers : ~StartsQuery(t)]_vars

C20_AllServersPolled ==
    enabled["ups_monitoring"] /\ servers = {1, 2} =>
        \A t \in {1, 2} : <>(shutdown \/ pc[t] = "cooldown")

\* ------------------------------------------------------------------------
\* Properties of the publication step (SpecPublish)
\* ------------------------------------------------------------------------
\* C21: in every interleaving of a poller with its consumers and with the
\* shutdown, the poller's publish step completes without a panic, also when
\* the last subscriber disappears between the subscriber-count check and
\* the send.
C21_PublishNeverPanics == \A t \in Callers : pc[t] # "panicked"

\* ------------------------------------------------------------------------
\* Properties of the passive read API (SpecData)
\* ------------------------------------------------------------------------
\* the response of the request being answered
PendingResponse == RouteResponse(rd.op, rd.result)

\* C22: a by-id lookup of an id that is not in the cache is answered
\* NotFound with success = false, an error text and no data; a lookup of a
\* cached id is answered Ok with success = true, no error and the item; the
\* get-all routes always answer Ok with success = true and the sequence. In
\* every response success is true exactly when data is present and exactly
\* when error is absent.
C22_ResponseShape ==
    rd.op # "none" =>
        LET r == PendingResponse
            map == cache[MapField(rd.family)]
        IN /\ (rd.op = "get_by_id" /\ rd.id \notin DOMAIN map) =>
                  /\ r.status = "NotFound"
                  /\ r.body.success = FALSE
                  /\ IsSome(r.body.error)
                  /\ r.body.data = None
           /\ (rd.op = "get_by_id" /\ rd.id \in DOMAIN map) =>
                  /\ r.status = "Ok"
                  /\ r.body.success = TRUE
                  /\ r.body.error = None
                  /\ r.body.data = Some(map[rd.id])
           /\ rd.op = "get_all" =>
                  /\ r.status = "Ok"
                  /\ r.body.success = TRUE
                  /\ r.body.error = None
                  /\ r.body.data = Some(cache[VecField(rd.family)])
           /\ r.body.success <=> IsSome(r.body.data)
           /\ r.body.success <=> (r.body.error = None)

\* a lookup of an id missing from a cache that holds another sensor
C22_Witness ==
    /\ rd.op = "get_by_id"
    /\ rd.family = "temperature"
    /\ cache.temperature_sensors_by_hw_id # EmptyMap
    /\ rd.id \notin DOMAIN cache.temperature_sensors_by_hw_id
    /\ PendingResponse.status = "NotFound"

\* ------------------------------------------------------------------------
\* Properties of the path from the pollers to the cache (SpecEndToEnd)
\* ------------------------------------------------------------------------
\* the collections a temperature cycle can publish
TemperaturePublications == {r.sensors : r \in PollResults}

\* the collections the cycle of the configured server can publish
UpsPublications == BatchesOf(get_upses(DataUpsConfig, ServerId))

\* the family's publication of this cycle waits in the updater's backlog
PublishedToCache(f, v) == "cache" \in receivers[f] /\ chan[f]["cache"] = <<v>>

\* the cache returns exactly the collection: get_all and get_by_id
CacheReturns(f, v) ==
    /\ ~SetInProgress(f)
    /\ get_all(f) = v
    /\ \A id \in ProbeIds : get_by_hw_id(f, id) = ItemById(v, id)

\* C23: with the cache updater subscribed to both channels, once a poller
\* has completed its poll cycle the cache eventually returns, for that
\* family, exactly the collection published in the cycle (get_all and
\* get_by_id), whether or not the other family publishes.
C23_EndToEnd ==
    /\ \A v \in TemperaturePublications :
           PublishedToCache("temperature", v) ~> CacheReturns("temperature", v)
    /\ \A v \in UpsPublications :
           PublishedToCache("ups", v) ~> CacheReturns("ups", v)

\* both families' publications, neither empty, are returned by the cache
C23_Witness ==
    /\ ow_pc = "sleep"
    /\ \E t \in Callers : pc[t] = "cooldown"
    /\ get_all("temperature") # <<>>
    /\ get_all("ups") # <<>>
    /\ \A f \in Families : CacheReturns(f, committed[f])

\* ------------------------------------------------------------------------
\* Properties of the endpoint loop's cooldown and send outcomes (SpecOutcome)
\* ------------------------------------------------------------------------
\* less time than the cooldown has elapsed since a send of the endpoint
\* succeeded
WithinCooldownOfSuccess(e) ==
    IsSome(since_ok[e]) /\ Unwrap(since_ok[e]) < EndpointCooldown

\* C24: the endpoint loop skips a snapshot-changed notification if and only
\* if less time than the cooldown has elapsed since its last successful
\* send: the first notification is sent, one handled when exactly the
\* cooldown or more has elapsed is sent, and a send that did not succeed
\* starts no cooldown window.
C24_SkipIffWithinCooldown ==
    [][\A e \in Endpoints :
          (e \in recorded /\ Handles(e)) => (~Sends(e) <=> WithinCooldownOfSuccess(e))]_vars

\* the step in which the loop takes up a change and does not send it
SkipsNotification(e) == Handles(e) /\ ~Sends(e)

\* C25: a notification skipped because of the cooldown is dropped, not
\* queued: the skip leaves no change pending, a change becomes pending only
\* when the Merger publishes, and every send answers at least one
\* notification raised after the loop last took up a change, so that the
\* expiry of the cooldown alone causes no send.
C25_SkippedIsDropped ==
    [][\A e \in observed :
          /\ SkipsNotification(e) => ~ep_changed'[e]
          /\ (~ep_changed[e] /\ ep_changed'[e]) => \E f \in Families : MergerReceives(f)
          /\ Sends(e) => notif_pending[e] >= 1]_vars

\* the last change taken up was skipped, the cooldown has expired since,
\* and the loop waits with nothing pending
C25_Witness ==
    /\ ep_pc[1] = "select"
    /\ IsSome(last_sent[1])
    /\ Unwrap(last_sent[1]) > EndpointCooldown
    /\ ~prev_sent[1]
    /\ ~ep_changed[1]
    /\ notif_pending[1] = 0

\* the ways a request fails
Failures == {"status", "connect_error", "timeout"}

\* the step in which the request of the endpoint ends
SendEnds(e) == ep_pc[e] = "sending" /\ ep_pc'[e] # "sending"

C27_RepublishPerValue ==
    [][/\ \A f \in Families :
             MergerReceives(f) =>
                /\ data_to_send' =
                      [data_to_send EXCEPT ![SnapshotField(f)] = Head(chan[f]["merger"])]
                /\ watch' = data_to_send'
                /\ \A e \in Listening : ep_changed'[e]
                /\ \A e \in Listening \cap observed :
                      notif_pending'[e] = IF notif_pending[e] < 2
                                          THEN notif_pending[e] + 1 ELSE 2
       /\ (watch' # watch \/ \E e \in Endpoints : notif_pending'[e] > notif_pending[e])
             => \E f \in Families : MergerReceives(f)]_vars

\* while the endpoint posts the current snapshot, exactly one notification
\* has been raised and the snapshot is still the one being posted: the
\* Merger republished a value equal to the previous one
C27_Witness ==
    /\ ep_pc[1] = "sending"
    /\ ep_body[1] = Some(watch)
    /\ ep_changed[1]
    /\ notif_pending[1] = 1

\* ------------------------------------------------------------------------
\* Properties of the cache's families (SpecEndToEnd)
\* ------------------------------------------------------------------------
\* the sequence and the mapping of a family
FamilyState(f) == <<cache[VecField(f)], cache[MapField(f)]>>

\* C28: an update of one family leaves the other family's sequence and
\* mapping unchanged: a step changes the sequence or the mapping of a family
\* only while the publication being applied is of that family, in either
\* order of arrival.
C28_OtherFamilyUnchanged ==
    [][\A f \in Families : FamilyState(f)' # FamilyState(f) => SetInProgress(f)]_vars

\* a power-supply publication is being applied, its mapping just cleared,
\* after a temperature publication: the sensors are all there
C28_Witness ==
    /\ upd_family = "ups"
    /\ upd_pc = "set_insert"
    /\ upd_i = 0
    /\ upd_value # <<>>
    /\ cache.temperature_sensors # <<>>
    /\ cache.temperature_sensors = committed["temperature"]
    /\ cache.temperature_sensors_by_hw_id = ById(committed["temperature"])

\* a temperature publication is being applied after a power-supply one
C28_WitnessOtherOrder ==
    /\ upd_family = "temperature"
    /\ upd_pc = "set_insert"
    /\ upd_i = 0
    /\ upd_value # <<>>
    /\ cache.upses # <<>>
    /\ cache.upses_by_hw_id = ById(committed["ups"])

\* ------------------------------------------------------------------------
\* Properties of a consumer of a family channel (SpecLagFair)
\* ------------------------------------------------------------------------
\* C29: a consumer applies the publications of a family in the order they
\* were produced, none twice; a consumer that lagged beyond the backlog
\* skips publications but keeps receiving later ones: a value retained for
\* the Merger is eventually received, whatever happens on the other
\* family's channel.
C29_KeepsReceiving ==
    \A f \in {"temperature", "ups"} :
        ("merger" \in receivers[f] /\ chan[f]["merger"] # <<>>)
            ~> (chan[f]["merger"] = <<>>)

\* ------------------------------------------------------------------------
\* Properties of the spacing of connects (SpecNut)
\* ------------------------------------------------------------------------
\* the step in which a caller starts Connection::new
StartsConnect(t) == pc[t] = "c_falock" /\ pc'[t] = "c_new"

\* C30: any two consecutive connect attempts of one connection manager are
\* separated by at least the cooldown, also when the earlier one succeeded
\* and its session then failed the liveness check: a connect is started
\* only when the cooldown has passed since the last connect returned.
C30_ConnectsSpaced ==
    [][\A t \in Callers : StartsConnect(t) => since_connect >= Cooldown]_vars

\* ------------------------------------------------------------------------
\* Properties of the temperature poll cycle on a changing file system (SpecScan)
\* ------------------------------------------------------------------------
\* C31: a failure to read a device's backing value, also of a device removed
\* between the existence check and the read, is a missing optional value:
\* the poll cycle and the poller loop go on, no read panics.
C31_ReadFailureIsNone == ow_pc # "panicked"

\* the names of the device entries of a sequence
NamesOf(list) == {list[i].name : i \in 1..Len(list)}

\* the device ids of a sequence of readings
IdsOf(readings) == {readings[i].meta.hw.id : i \in 1..Len(readings)}

\* two hex digits, a dash, twelve hex digits
HasDeviceIdFormat(name) ==
    /\ Len(Chars(name)) = 15
    /\ \A i \in {1, 2} \cup (4..15) : Chars(name)[i] \in HexDigits
    /\ Chars(name)[3] = "-"

\* the devices of the current directory contents that a scan is to list
Attached ==
    {dev.name : dev \in {x \in fs : /\ x.is_dir
                                    /\ HasDeviceIdFormat(x.name)
                                    /\ x.temperature_file # None
                                    /\ x.resolution_file # None}}

\* C32: a scan lists a device if and only if its entry is a directory, its
\* name has the device-id format and both its files exist, judged on the
\* directory contents at the time of the scan; the readings collected in a
\* cycle are of devices that the cycle's scan listed.
C32_ScanListsValidDevices ==
    /\ [][ow_pc = "scan" /\ ow_pc' = "t_check"
            => /\ NamesOf(scan'.list) = Attached
               /\ Len(scan'.list) = Cardinality(Attached)]_vars
    /\ [](IdsOf(scan.out) \subseteq NamesOf(scan.list))

C32_Witness ==
    /\ ow_pc = "filter"
    /\ NamesOf(scan.list) = {DevA}
    /\ IdsOf(scan.out) = {DevA}
    /\ \E dev \in fs : dev.name = DevShort
    /\ \E dev \in fs : dev.name = DevB /\ ~dev.is_dir
    /\ \E dev \in fs : dev.name = DevA

\* ------------------------------------------------------------------------
\* Properties of the blocking client and the blocking main loop
\* ------------------------------------------------------------------------
\* the one client of SpecBlockingClient
TheClient == nut_clients[1]

\* the call just made tried to connect
Attempts == last_call' \in {"failed", "connected"}

\* C33: after the k-th consecutive connection failure the next k calls of
\* take_connection return nothing without connecting and the call after
\* those connects again; a successful connect resets failed_attempts to 0;
\* cooldown_counter never exceeds failed_attempts, and a failure at 255
\* leaves failed_attempts at 255.
C33_LinearBackoff ==
    /\ [](TheClient.cooldown_counter <= TheClient.failed_attempts
          /\ TheClient.failed_attempts <= MaxU8)
    /\ []((last_call \in {"failed", "skipped"})
            => skipped + TheClient.cooldown_counter = TheClient.failed_attempts)
    /\ [][ClientTake =>
            /\ (~TheClient.connection /\ TheClient.cooldown_counter > 0)
                 => last_call' = "skipped" /\ held' = None
            /\ (~TheClient.connection /\ TheClient.cooldown_counter = 0)
                 => Attempts /\ (TheClient.failed_attempts > 0
                                   => skipped = TheClient.failed_attempts)
            /\ last_call' = "connected" => TheClient'.failed_attempts = 0
            /\ last_call' = "failed"
                 => /\ held' = None
                    /\ TheClient'.failed_attempts >= TheClient.failed_attempts
                    /\ TheClient'.failed_attempts > TheClient.failed_attempts
                         \/ TheClient.failed_attempts = MaxU8]_vars

\* the 255th and later failures: 255 calls were answered from the cooldown
\* and the next call connects again
C33_Witness ==
    /\ TheClient.failed_attempts = MaxU8
    /\ TheClient.cooldown_counter = 0
    /\ skipped = MaxU8
    /\ last_call = "skipped"

\* C34: when an iteration of the blocking main loop ends, every client and
\* connection taken out has been given back: nut_clients holds a client for
\* every configured server.
C34_ClientsGivenBack ==
    (held = None /\ ups_i = Len(BlockingUpses) + 1) => DOMAIN nut_clients = BlockingServers

\* ------------------------------------------------------------------------
\* Properties of the merged-data channel and its receivers
\* ------------------------------------------------------------------------
\* no endpoint has posted or is posting anything, and none has a change to handle
NothingPushed ==
    \A e \in Endpoints :
        /\ ep_pc[e] # "sending"
        /\ last_sent[e] = None
        /\ ep_body[e] = None
        /\ ~ep_changed[e]

\* C35: no endpoint is sent anything before the Merger has received its first
\* family publication: the snapshot the merged-data channel is created with
\* raises no change, a change is raised for an endpoint only by a step in
\* which the Merger receives and republishes, and a request starts only on
\* such a change.
C35_NoPushBeforeRepublish ==
    /\ [](merger_pc \in {"start", "off"} => NothingPushed)
    /\ [][NothingPushed /\ ~(\E f \in Families : MergerReceives(f)) => NothingPushed']_vars
    /\ [][\A e \in Endpoints :
            /\ ep_changed'[e] /\ ~ep_changed[e]
                 => \E f \in Families : MergerReceives(f) /\ watch' = data_to_send'
            /\ Sends(e) => ep_changed[e]]_vars

\* the first request ever, started on the first republish
C35_Witness ==
    /\ ep_pc[1] = "sending"
    /\ last_sent[1] = None
    /\ notif_gap = MaxElapsed
    /\ ep_body[1] = Some(watch)
    /\ watch = data_to_send

\* the ids of the UPSes configured for server t
ServerDeviceIds(t) == IdsOf(ServerUpses(t))

\* a collection of the UPSes of exactly one server, or of none
OfOneServer(batch) ==
    batch = <<>> \/ \E t \in servers : batch \in BatchesOf(ServerUpses(t))

\* the client loop of server t publishes into the power-supply channel
Publishes(t) == pc[t] = "call" /\ pc'[t] = "cooldown" /\ chan' # chan

\* C36: every publication into the power-supply channel holds exactly the
\* devices of the one server whose loop published it, and once a consumer
\* has applied a publication, the PassiveCache's power-supply sequence and
\* mapping and the supplies of the Merger's snapshot hold the devices of
\* that one server only: the devices of another server are replaced.
C36_OneServerPerPublication ==
    /\ [][\A t \in servers :
            Publishes(t) =>
              \A c \in receivers["ups"] :
                 chan'["ups"][c][Len(chan'["ups"][c])] \in BatchesOf(ServerUpses(t))]_vars
    /\ [](/\ OfOneServer(data_to_send.upses)
          /\ OfOneServer(watch.upses)
          /\ ~SetInProgress("ups") =>
                /\ OfOneServer(cache.upses)
                /\ cache.upses = committed["ups"]
                /\ DOMAIN cache.upses_by_hw_id = IdsOf(cache.upses)
                /\ \A i \in 1..Len(cache.upses) :
                      cache.upses_by_hw_id[cache.upses[i].meta.hw.id] = cache.upses[i])

\* server 2 has published after server 1, and both consumers hold the
\* device of server 2 only
C36_Witness ==
    /\ pc[1] = "returned"
    /\ pc[2] = "cooldown"
    /\ ~SetInProgress("ups")
    /\ IdsOf(cache.upses) = ServerDeviceIds(2)
    /\ DOMAIN cache.upses_by_hw_id = ServerDeviceIds(2)
    /\ IdsOf(data_to_send.upses) = ServerDeviceIds(2)
    /\ ServerDeviceIds(1) \cap ServerDeviceIds(2) = {}

\* C37: the Merger's republish never fails while the Merger runs: the
\* merged-data channel always has a live receiver, the one kept by
\* start_active_sender_loop, also with no endpoint configured and after
\* every endpoint loop has ended.
C37_RepublishNeverFails ==
    /\ merger_pc # "panicked"
    /\ merger_pc = "select" => WatchReceivers > 0

\* C38: once the Merger has terminated and the merged-data sender is gone,
\* every endpoint loop terminates, also a loop that never takes the shutdown
\* branch of its select!.
C38_EndpointsEndWithMerger ==
    (merger_pc = "returned" /\ ~watch_open)
        ~> (\A e \in endpoints : ep_pc[e] = "returned")

\* both endpoint loops have returned after the Merger while
\* start_active_sender_loop still awaits them, the second one right after a
\* request of its own
C38_Witness ==
    /\ merger_pc = "returned"
    /\ ~watch_open
    /\ shutdown
    /\ ep_pc[1] = "returned"
    /\ ep_pc[2] = "returned"
    /\ last_sent[2] = Some(0)
    /\ "active_sender" \notin fn_ret

\* ------------------------------------------------------------------------
\* Properties of the session and of failed_attempts in nut::client
\* ------------------------------------------------------------------------
\* query_variables is called by task t and takes the lock
QueryVariablesCalled(t) ==
    /\ pc[t] = "qv_lock"
    /\ loc[t].u < Len(upses)
    /\ pc'[t] = "qv_get" \/ loc'[t].u = loc[t].u + 1

\* query_variables of task t returns after its sweep
QueryVariablesReturns(t) == pc[t] = "qv_get" /\ pc'[t] = "qv_lock"

\* C39: query_variables preserves the presence of the session: a session
\* stored when the call takes the lock is stored again when the call
\* returns, whether all, some or none of the variables were answered; with no
\* session stored the call returns an empty mapping and the session stays
\* absent; a session is discarded only by the liveness check of is_connected.
C39_QueryKeepsSession ==
    [][/\ \A t \in Callers :
            /\ QueryVariablesCalled(t) /\ connection = None
                 => /\ connection' = None
                    /\ pc'[t] = "qv_lock"
                    /\ loc'[t].data_from_upses[loc'[t].u].variables = EmptyMap
            /\ QueryVariablesCalled(t) /\ connection # None
                 => /\ pc'[t] = "qv_get"
                    /\ loc'[t].conn = connection
            /\ pc[t] = "qv_get" => loc[t].conn # None /\ loc'[t].conn \in {loc[t].conn, None}
            /\ QueryVariablesReturns(t)
                 => /\ connection' = loc[t].conn
                    /\ connection' # None
       /\ dead' \ dead # {} => \E t \in Callers : pc[t] = "ic_version" /\ pc'[t] = "read_fa"
      ]_vars

\* query_variables has returned an empty mapping for the first UPS after a
\* sweep in which no variable was answered, and the session is stored again
C39_Witness ==
    /\ pc[1] = "qv_lock"
    /\ loc[1].u = 1
    /\ connection # None
    /\ loc[1].data_from_upses[1].variables = EmptyMap
    /\ calls[1].took # <<>>
    /\ calls[1].took[Len(calls[1].took)]
    /\ calls[1].get_var # <<>>

\* b is the u32 one above a
OneAbove(a, b) ==
    \/ b.hi = a.hi /\ b.lo = a.lo + 1 /\ b.lo < Half
    \/ a.lo = Half - 1 /\ b.lo = 0 /\ b.hi = a.hi + 1 /\ b.hi < Half

\* connect takes the write lock of failed_attempts
ConnectCounts == ~fa_wlock /\ fa_wlock'

\* connect returns after Connection::new succeeded
ConnectSucceeds == fa_wlock /\ ~fa_wlock' /\ consec_fail' = 0

\* connect returns after Connection::new failed
ConnectFails == fa_wlock /\ ~fa_wlock' /\ consec_fail' = consec_fail + 1

\* C40: whenever no task holds the connection lock, a stored session implies
\* failed_attempts = 0; failed_attempts is above 0 only while the most recent
\* connect failed; a failed connect raises it by exactly 1, and at the 32-bit
\* maximum it stays there instead of wrapping; only connect changes it.
C40_FailedAttemptsCounts ==
    /\ []((conn_lock = 0 /\ connection # None) => failed_attempts = U32Zero)
    /\ []((failed_attempts # U32Zero /\ ~fa_wlock) => consec_fail > 0)
    /\ [][/\ ConnectCounts
               => IF failed_attempts = U32Max THEN failed_attempts' = U32Max
                  ELSE OneAbove(failed_attempts, failed_attempts')
          /\ ConnectFails
               => failed_attempts' = failed_attempts /\ failed_attempts' # U32Zero
          /\ ConnectSucceeds
               => failed_attempts' = U32Zero /\ connection' # None
          /\ ~ConnectCounts /\ ~ConnectSucceeds
               => failed_attempts' = failed_attempts
         ]_vars

\* a connect has failed with the counter already at u32::MAX, which was
\* reached by the failed connect before it: the counter is still u32::MAX
C40_Witness ==
    /\ failed_attempts = U32Max
    /\ consec_fail = 3
    /\ ~fa_wlock
    /\ conn_lock = 0
    /\ connection = None

====
